---------------------------- MODULE Spec2Model ----------------------------
(***************************************************************************)
(* Firefly-algorithm simulator: the objective-function registry            *)
(* (objective-functions.js), the Firefly agent (firefly.js), the           *)
(* FireflyAlgorithm population driver and the flash-timing part of         *)
(* Renderer.render (firefly-algorithm.js).                                 *)
(*                                                                         *)
(* Number representation.  JavaScript numbers are doubles; the model uses  *)
(* fixed point:                                                            *)
(*   positions            1/100        (x = 512 is 5.12)                   *)
(*   objective values     1/10000                                          *)
(*   gamma, beta0         1/1000                                           *)
(*   alpha (as passed to moveTowards / randomWalk)    1/10000              *)
(*   flash intensity      1/1000                                           *)
(*   times                milliseconds                                     *)
(*   Math.random()        k / RandDen, k in 0 .. RandDen-1                  *)
(* Math.sin, Math.cos and Math.exp are evaluated from tables with linear   *)
(* interpolation; every quotient is rounded to the nearest unit.           *)
(***************************************************************************)
EXTENDS Integers, Sequences, FiniteSets, TLC

(***************************************************************************)
(* Bounds of the model.                                                    *)
(***************************************************************************)
\* Math.random() returns k / RandDen
RandDen == 2
\* largest population size a caller asks for
MaxN == 3
\* step() is not called any more once generation has reached MaxGen
MaxGen == 2
\* largest resolution passed to getFunctionRange
MaxResolution == 4

\* the display frames of a page
MaxTicks == 5

\* the animation frames a page requests
MaxHandles == 6

(***************************************************************************)
(* Arithmetic helpers.                                                     *)
(***************************************************************************)
\* a / d rounded to the nearest integer (d > 0)
Round(a, d) == (2 * a + d) \div (2 * d)

Min(a, b) == IF a < b THEN a ELSE b

Max(a, b) == IF a > b THEN a ELSE b

\* Math.PI in 1/100
PI == 314

\* sin at 0.0, 0.1, ..., 1.6 rad, in 1/1000
SinTable == <<0, 100, 199, 296, 389, 479, 565, 644, 717, 783, 841, 891, 932,
              964, 985, 997, 1000>>

\* sin on the first quadrant, a in 0 .. 157 (1/100 rad), by interpolation
SinQuadrant(a) ==
    LET k == a \div 10
        f == a % 10
        lo == SinTable[k + 1]
        hi == SinTable[k + 2]
    IN  IF a >= PI \div 2 THEN 1000 ELSE lo + Round((hi - lo) * f, 10)

\* Math.sin(a), a in 1/100 rad, result in 1/1000
SinMilli(a) ==
    LET m == a % (2 * PI)
    IN  IF m <= PI \div 2 THEN SinQuadrant(m)
        ELSE IF m <= PI THEN SinQuadrant(PI - m)
        ELSE IF m <= PI + PI \div 2 THEN 0 - SinQuadrant(m - PI)
        ELSE 0 - SinQuadrant(2 * PI - m)

\* Math.cos(a), a in 1/100 rad, result in 1/1000
CosMilli(a) == SinMilli(a + PI \div 2)

\* e^-k for k = 0, 1, ..., 7 in 1/1000 (0 beyond)
ExpIntTable == <<1000, 368, 135, 50, 18, 7, 2, 1>>

\* e^-f for f = 0.0, 0.1, ..., 1.0 in 1/1000
ExpFracTable == <<1000, 905, 819, 741, 670, 607, 549, 497, 449, 407, 368>>

\* e^-u for u >= 0 in 1/1000, result in 1/1000
ExpNegMilli(u) ==
    LET k == u \div 1000
        r == u % 1000
        i == r \div 100
        f == r % 100
        lo == ExpFracTable[i + 1]
        hi == ExpFracTable[i + 2]
        frac == lo + Round((hi - lo) * f, 100)
    IN  IF k >= Len(ExpIntTable) THEN 0
        ELSE Round(ExpIntTable[k + 1] * frac, 1000)

\* Math.exp(u), u in 1/1000, result in 1/1000; a positive exponent is the
\* reciprocal of the negative one, saturating at e^7
ExpMilli(u) ==
    IF u <= 0 THEN ExpNegMilli(0 - u)
    ELSE Round(1000000, Max(ExpNegMilli(Min(u, 7000)), 1))

\* Math.pow(s, 20) for s in 1/1000, result in 1/1000
Pow20Milli(s) ==
    LET p2 == Round(s * s, 1000)
        p4 == Round(p2 * p2, 1000)
        p8 == Round(p4 * p4, 1000)
        p16 == Round(p8 * p8, 1000)
    IN  Round(p16 * p4, 1000)

(***************************************************************************)
(* objective-functions.js                                                  *)
(***************************************************************************)
\* the value of a property or variable that holds nothing
Undefined == "undefined"

Null == 0

\* fn(x, y) of each registered function: x, y in 1/100, result in 1/10000
michalewicz(x, y) ==
    LET term1 == Round(SinMilli(x) * Pow20Milli(SinMilli(Round(x * x, PI))), 1000)
        term2 == Round(SinMilli(y) * Pow20Milli(SinMilli(Round(2 * y * y, PI))), 1000)
    IN  0 - 10 * (term1 + term2)

rastrigin(x, y) ==
    200000 + (x * x - 100 * CosMilli(Round(2 * PI * x, 100)))
           + (y * y - 100 * CosMilli(Round(2 * PI * y, 100)))

rosenbrock(x, y) ==
    LET d == Round(100 * y - x * x, 100)
    IN  (100 - x) * (100 - x) + 100 * d * d

\* a himmelblau whose second term is not squared
himmelblauHalfSquared(x, y) ==
    LET p == Round(x * x + 100 * y - 110000, 100)
        q == Round(100 * x + y * y - 70000, 100)
    IN  p * p + 100 * q

himmelblau(x, y) ==
    LET p == Round(x * x + 100 * y - 110000, 100)
        q == Round(100 * x + y * y - 70000, 100)
    IN  p * p + q * q

sphere(x, y) == x * x + y * y

\* the keys of the registry
FunctionKeys == {"michalewicz", "rastrigin", "rosenbrock", "himmelblau", "sphere"}

\* objectiveFunctions[key]: a reference to the registry entry (the entry is
\* named by its key), or Undefined when the registry has no such property
objectiveFunctions(key) == IF key \in FunctionKeys THEN key ELSE Undefined

\* objectiveFunction.domain of a registry entry
DomainOf(of) ==
    CASE of = "michalewicz" -> [xMin |-> 0, xMax |-> PI, yMin |-> 0, yMax |-> PI]
      [] of = "rastrigin" -> [xMin |-> -512, xMax |-> 512, yMin |-> -512, yMax |-> 512]
      [] of = "rosenbrock" -> [xMin |-> -200, xMax |-> 200, yMin |-> -100, yMax |-> 300]
      [] of = "himmelblau" -> [xMin |-> -500, xMax |-> 500, yMin |-> -500, yMax |-> 500]
      [] of = "sphere" -> [xMin |-> -500, xMax |-> 500, yMin |-> -500, yMax |-> 500]

\* objectiveFunction.fn(x, y) of a registry entry
Fn(of, x, y) ==
    CASE of = "michalewicz" -> michalewicz(x, y)
      [] of = "rastrigin" -> rastrigin(x, y)
      [] of = "rosenbrock" -> rosenbrock(x, y)
      [] of = "himmelblau" -> himmelblau(x, y)
      [] of = "sphere" -> sphere(x, y)

\* Infinity: above every value a registered function takes on its domain
Infinity == 1000000000

\* the number of values i takes in for (let i = 0; i <= resolution; i++)
\* when every sample is to the left of the upper boundary
GridSizeOpen(resolution) == resolution

\* the number of values i takes in for (let i = 0; i <= resolution; i++)
GridSize(resolution) == resolution + 1

\* the sample of getFunctionRange at (i, j).  With resolution 0 dx and dy are
\* extent / 0 = Infinity, 0 * Infinity is NaN, and so are x, y and fn(x, y)
GridSample(funcKey, resolution, i, j) ==
    LET domain == DomainOf(funcKey)
    IN  IF resolution = 0 THEN [nan |-> TRUE, i |-> i, j |-> j]
        ELSE LET x == domain.xMin + Round(i * (domain.xMax - domain.xMin), resolution)
                 y == domain.yMin + Round(j * (domain.yMax - domain.yMin), resolution)
             IN  [nan |-> FALSE, i |-> i, j |-> j, x |-> x, y |-> y,
                  value |-> Fn(funcKey, x, y)]

\* the two loops of getFunctionRange from sample m on (m counts the samples:
\* i = m \div size, j = m % size); every comparison with NaN is false
RECURSIVE RangeFrom(_, _, _, _)
RangeFrom(funcKey, resolution, acc, m) ==
    LET size == GridSize(resolution)
    IN  IF m >= size * size THEN acc
        ELSE LET sample == GridSample(funcKey, resolution, m \div size, m % size)
                 min == IF ~sample.nan /\ sample.value < acc.min
                        THEN sample.value ELSE acc.min
                 max == IF ~sample.nan /\ sample.value > acc.max
                        THEN sample.value ELSE acc.max
             IN  RangeFrom(funcKey, resolution,
                           [min |-> min, max |-> max, calls |-> Append(acc.calls, sample)],
                           m + 1)

\* getFunctionRange(funcKey, resolution): min, max and the samples taken
getFunctionRange(funcKey, resolution) ==
    RangeFrom(funcKey, resolution,
              [min |-> Infinity, max |-> 0 - Infinity, calls |-> <<>>], 0)

(***************************************************************************)
(* firefly.js: class Firefly.  A Firefly object is a record; the operators *)
(* below are its methods, each returning the object after the call.        *)
(***************************************************************************)
maxTrailLength == 20

\* Math.random() * range for a draw r (r / RandDen of the range)
RandomTimes(r, range) == Round(r * range, RandDen)

\* evaluate(): value and brightness at the current position
evaluate(f) ==
    LET v == Fn(f.objectiveFunction, f.x, f.y)
    IN  [f EXCEPT !.value = v, !.brightness = 0 - v]

\* a firefly whose interval is drawn from the males' range whatever its gender
NewFireflyOneCadence(x, y, of, r) ==
    LET gender == IF 2 * r.gender < RandDen THEN "male" ELSE "female"
    IN  evaluate([x |-> x, y |-> y, objectiveFunction |-> of, brightness |-> 0,
                  value |-> 0, trail |-> <<>>, gender |-> gender,
                  flashPhase |-> RandomTimes(r.phase, 6000),
                  flashInterval |-> 1500 + RandomTimes(r.interval, 1500),
                  flashDuration |-> 150 + RandomTimes(r.duration, 100),
                  isFlashing |-> FALSE, flashIntensity |-> 0,
                  responseDelay |-> 0, isResponding |-> FALSE])

\* new Firefly(x, y, objectiveFunction); r holds the constructor's four
\* Math.random() results: gender, flashPhase, flashInterval, flashDuration
NewFirefly(x, y, of, r) ==
    LET gender == IF 2 * r.gender < RandDen THEN "male" ELSE "female"
    IN  evaluate([x |-> x, y |-> y, objectiveFunction |-> of, brightness |-> 0,
                  value |-> 0, trail |-> <<>>, gender |-> gender,
                  flashPhase |-> RandomTimes(r.phase, 6000),
                  flashInterval |-> IF gender = "male"
                                    THEN 1500 + RandomTimes(r.interval, 1500)
                                    ELSE 3000 + RandomTimes(r.interval, 3000),
                  flashDuration |-> 150 + RandomTimes(r.duration, 100),
                  isFlashing |-> FALSE, flashIntensity |-> 0,
                  responseDelay |-> 0, isResponding |-> FALSE])

\* distanceTo(other) squared; the callers square the distance or compare it
\* with a non-negative threshold
distanceToSq(f, other) ==
    LET dx == f.x - other.x
        dy == f.y - other.y
    IN  dx * dx + dy * dy

\* an addTrailPoint() that evicts nothing
addTrailPointKeeping(f) ==
    [f EXCEPT !.trail = Append(f.trail, [x |-> f.x, y |-> f.y])]

\* addTrailPoint()
addTrailPoint(f) ==
    LET t == Append(f.trail, [x |-> f.x, y |-> f.y])
    IN  [f EXCEPT !.trail = IF Len(t) > maxTrailLength THEN Tail(t) ELSE t]

\* clearTrail()
clearTrail(f) == [f EXCEPT !.trail = <<>>]

\* a position left where the move put it
Unclamped(f, domain) == f

\* clampToDomain(domain)
clampToDomain(f, domain) ==
    [f EXCEPT !.x = Max(domain.xMin, Min(domain.xMax, f.x)),
              !.y = Max(domain.yMin, Min(domain.yMax, f.y))]

\* alpha * domainScale * (Math.random() - 0.5); alpha in 1/10000
Noise(alpha, domainScale, r) ==
    Round(alpha * domainScale * (2 * r - RandDen), 2 * RandDen * 10000)

\* a move that also restarts the flash cycle of the firefly moved
moveTowardsRestartingCycle(f, other, beta0, gamma, alpha, domain, rx, ry) ==
    LET f1 == addTrailPoint(f)
        rSquared == distanceToSq(f1, other)
        beta == Round(beta0 * ExpMilli(0 - Round(gamma * Round(rSquared, 10), 1000)), 1000)
        dx == other.x - f1.x
        dy == other.y - f1.y
        domainScaleX == domain.xMax - domain.xMin
        domainScaleY == domain.yMax - domain.yMin
        f2 == [f1 EXCEPT !.x = f1.x + Round(beta * dx, 1000) + Noise(alpha, domainScaleX, rx),
                         !.y = f1.y + Round(beta * dy, 1000) + Noise(alpha, domainScaleY, ry),
                         !.flashPhase = 0]
    IN  evaluate(clampToDomain(f2, domain))

\* moveTowards(other, beta0, gamma, alpha, domain); rx, ry are the two
\* Math.random() results
moveTowards(f, other, beta0, gamma, alpha, domain, rx, ry) ==
    LET f1 == addTrailPoint(f)
        rSquared == distanceToSq(f1, other)
        beta == Round(beta0 * ExpMilli(0 - Round(gamma * Round(rSquared, 10), 1000)), 1000)
        dx == other.x - f1.x
        dy == other.y - f1.y
        domainScaleX == domain.xMax - domain.xMin
        domainScaleY == domain.yMax - domain.yMin
        f2 == [f1 EXCEPT !.x = f1.x + Round(beta * dx, 1000) + Noise(alpha, domainScaleX, rx),
                         !.y = f1.y + Round(beta * dy, 1000) + Noise(alpha, domainScaleY, ry)]
    IN  evaluate(clampToDomain(f2, domain))

\* randomWalk(alpha, domain)
randomWalk(f, alpha, domain, rx, ry) ==
    LET f1 == addTrailPoint(f)
        domainScaleX == domain.xMax - domain.xMin
        domainScaleY == domain.yMax - domain.yMin
        f2 == [f1 EXCEPT !.x = f1.x + Noise(alpha, domainScaleX, rx),
                         !.y = f1.y + Noise(alpha, domainScaleY, ry)]
    IN  evaluate(clampToDomain(f2, domain))

\* an envelope whose exit leaves isResponding as it is
FlashEnvelopeStillResponding(f) ==
    IF 5 * f.flashPhase < f.flashDuration
    THEN [f EXCEPT !.flashIntensity = Round(5000 * f.flashPhase, f.flashDuration)]
    ELSE IF f.flashPhase < f.flashDuration
    THEN [f EXCEPT !.flashIntensity =
              ExpMilli(0 - 3 * (Round(1000 * f.flashPhase, f.flashDuration) - 200))]
    ELSE [f EXCEPT !.isFlashing = FALSE, !.flashIntensity = 0]

\* an envelope that decays along a straight line
FlashEnvelopeLinearDecay(f) ==
    IF 5 * f.flashPhase < f.flashDuration
    THEN [f EXCEPT !.flashIntensity = Round(5000 * f.flashPhase, f.flashDuration)]
    ELSE IF f.flashPhase < f.flashDuration
    THEN [f EXCEPT !.flashIntensity =
              Round(1250 * (f.flashDuration - f.flashPhase), f.flashDuration)]
    ELSE [f EXCEPT !.isFlashing = FALSE, !.flashIntensity = 0, !.isResponding = FALSE]

\* an envelope whose exit leaves the intensity of the last frame
FlashEnvelopeKeepingGlow(f) ==
    IF 5 * f.flashPhase < f.flashDuration
    THEN [f EXCEPT !.flashIntensity = Round(5000 * f.flashPhase, f.flashDuration)]
    ELSE IF f.flashPhase < f.flashDuration
    THEN [f EXCEPT !.flashIntensity =
              ExpMilli(0 - 3 * (Round(1000 * f.flashPhase, f.flashDuration) - 200))]
    ELSE [f EXCEPT !.isFlashing = FALSE, !.isResponding = FALSE]

\* the flash envelope of updateFlash: t = flashPhase / flashDuration
FlashEnvelope(f) ==
    IF 5 * f.flashPhase < f.flashDuration
    THEN [f EXCEPT !.flashIntensity = Round(5000 * f.flashPhase, f.flashDuration)]
    ELSE IF f.flashPhase < f.flashDuration
    THEN [f EXCEPT !.flashIntensity =
              ExpMilli(0 - 3 * (Round(1000 * f.flashPhase, f.flashDuration) - 200))]
    ELSE [f EXCEPT !.isFlashing = FALSE, !.flashIntensity = 0, !.isResponding = FALSE]

\* an updateFlash(deltaTime) whose natural flash starts at the phase reached
updateFlashKeepingPhase(f, deltaTime) ==
    LET f1 == IF f.isResponding /\ f.responseDelay > 0
              THEN IF f.responseDelay - deltaTime <= 0
                   THEN [f EXCEPT !.isFlashing = TRUE, !.flashPhase = 0, !.responseDelay = 0]
                   ELSE [f EXCEPT !.responseDelay = f.responseDelay - deltaTime]
              ELSE f
        f2 == IF ~f1.isResponding \/ f1.responseDelay <= 0
              THEN IF f1.flashPhase + deltaTime >= f1.flashInterval
                   THEN [f1 EXCEPT !.isFlashing = TRUE,
                                   !.flashPhase = f1.flashPhase + deltaTime]
                   ELSE [f1 EXCEPT !.flashPhase = f1.flashPhase + deltaTime]
              ELSE f1
    IN  IF f2.isFlashing THEN FlashEnvelope(f2) ELSE f2

\* an updateFlash(deltaTime) whose phase runs on during the response delay
updateFlashCountingPhase(f, deltaTime) ==
    LET f1 == IF f.isResponding /\ f.responseDelay > 0
              THEN IF f.responseDelay - deltaTime <= 0
                   THEN [f EXCEPT !.isFlashing = TRUE, !.flashPhase = 0, !.responseDelay = 0]
                   ELSE [f EXCEPT !.responseDelay = f.responseDelay - deltaTime]
              ELSE f
        f2 == IF f1.flashPhase + deltaTime >= f1.flashInterval
              THEN [f1 EXCEPT !.isFlashing = TRUE, !.flashPhase = 0]
              ELSE [f1 EXCEPT !.flashPhase = f1.flashPhase + deltaTime]
    IN  IF f2.isFlashing THEN FlashEnvelope(f2) ELSE f2

\* an updateFlash(deltaTime) that leaves the countdown where the subtraction
\* put it
updateFlashOvershooting(f, deltaTime) ==
    LET f1 == IF f.isResponding /\ f.responseDelay > 0
              THEN IF f.responseDelay - deltaTime <= 0
                   THEN [f EXCEPT !.isFlashing = TRUE, !.flashPhase = 0,
                                  !.responseDelay = f.responseDelay - deltaTime]
                   ELSE [f EXCEPT !.responseDelay = f.responseDelay - deltaTime]
              ELSE f
        f2 == IF ~f1.isResponding \/ f1.responseDelay <= 0
              THEN IF f1.flashPhase + deltaTime >= f1.flashInterval
                   THEN [f1 EXCEPT !.isFlashing = TRUE, !.flashPhase = 0]
                   ELSE [f1 EXCEPT !.flashPhase = f1.flashPhase + deltaTime]
              ELSE f1
    IN  IF f2.isFlashing THEN FlashEnvelope(f2) ELSE f2

\* an updateFlash(deltaTime) whose natural flash starts only in the call in
\* which the phase crosses the interval
updateFlashOnCrossing(f, deltaTime) ==
    LET f1 == IF f.isResponding /\ f.responseDelay > 0
              THEN IF f.responseDelay - deltaTime <= 0
                   THEN [f EXCEPT !.isFlashing = TRUE, !.flashPhase = 0, !.responseDelay = 0]
                   ELSE [f EXCEPT !.responseDelay = f.responseDelay - deltaTime]
              ELSE f
        f2 == IF ~f1.isResponding \/ f1.responseDelay <= 0
              THEN IF f1.flashPhase < f1.flashInterval
                         /\ f1.flashPhase + deltaTime >= f1.flashInterval
                   THEN [f1 EXCEPT !.isFlashing = TRUE, !.flashPhase = 0]
                   ELSE [f1 EXCEPT !.flashPhase = f1.flashPhase + deltaTime]
              ELSE f1
    IN  IF f2.isFlashing THEN FlashEnvelope(f2) ELSE f2

\* updateFlash(deltaTime)
updateFlash(f, deltaTime) ==
    LET \* response flash countdown
        f1 == IF f.isResponding /\ f.responseDelay > 0
              THEN IF f.responseDelay - deltaTime <= 0
                   THEN [f EXCEPT !.isFlashing = TRUE, !.flashPhase = 0, !.responseDelay = 0]
                   ELSE [f EXCEPT !.responseDelay = f.responseDelay - deltaTime]
              ELSE f
        \* normal flash phase update
        f2 == IF ~f1.isResponding \/ f1.responseDelay <= 0
              THEN IF f1.flashPhase + deltaTime >= f1.flashInterval
                   THEN [f1 EXCEPT !.isFlashing = TRUE, !.flashPhase = 0]
                   ELSE [f1 EXCEPT !.flashPhase = f1.flashPhase + deltaTime]
              ELSE f1
    IN  IF f2.isFlashing THEN FlashEnvelope(f2) ELSE f2

\* a scan that takes a bright male at any distance
RECURSIVE NearbyFlashFromAnywhere(_, _, _, _, _)
NearbyFlashFromAnywhere(h, order, self, domainScale, k) ==
    IF k > Len(order) THEN FALSE
    ELSE IF order[k] # self /\ h[order[k]].gender = "male"
            /\ h[order[k]].flashIntensity > 500
    THEN TRUE
    ELSE NearbyFlashFromAnywhere(h, order, self, domainScale, k + 1)

\* the scan of checkForNearbyFlash over fireflies[k..]: TRUE when a male other
\* than self flashes brightly within responseDistance (0.2 * domainScale)
RECURSIVE NearbyFlashFrom(_, _, _, _, _)
NearbyFlashFrom(h, order, self, domainScale, k) ==
    IF k > Len(order) THEN FALSE
    ELSE LET other == h[order[k]]
         IN  IF order[k] = self \/ other.gender # "male"
             THEN NearbyFlashFrom(h, order, self, domainScale, k + 1)
             ELSE IF other.flashIntensity > 500
                     /\ 25 * distanceToSq(h[self], other) < domainScale * domainScale
             THEN TRUE
             ELSE NearbyFlashFrom(h, order, self, domainScale, k + 1)

\* a checkForNearbyFlash that responds however near the natural flash is
checkForNearbyFlashWhenImminent(h, order, self, domain, r) ==
    LET f == h[self]
        domainScale == Max(domain.xMax - domain.xMin, domain.yMax - domain.yMin)
    IN  IF f.gender # "female" \/ f.isFlashing \/ f.isResponding THEN f
        ELSE IF NearbyFlashFrom(h, order, self, domainScale, 1)
        THEN [f EXCEPT !.responseDelay = 400 + RandomTimes(r, 200), !.isResponding = TRUE]
        ELSE f

\* checkForNearbyFlash(fireflies, domain) on the object self of heap h; r is
\* the Math.random() result of the response delay
\* a check in which a female leaves the answer to a female that is responding
\* already
checkForNearbyFlashOneResponder(h, order, self, domain, r) ==
    LET f == h[self]
        domainScale == Max(domain.xMax - domain.xMin, domain.yMax - domain.yMin)
    IN  IF f.gender # "female" \/ f.isFlashing \/ f.isResponding THEN f
        ELSE IF f.flashInterval - f.flashPhase < 500 THEN f
        ELSE IF \E k \in 1..Len(order) : h[order[k]].isResponding THEN f
        ELSE IF NearbyFlashFrom(h, order, self, domainScale, 1)
        THEN [f EXCEPT !.responseDelay = 400 + RandomTimes(r, 200), !.isResponding = TRUE]
        ELSE f

checkForNearbyFlash(h, order, self, domain, r) ==
    LET f == h[self]
        domainScale == Max(domain.xMax - domain.xMin, domain.yMax - domain.yMin)
    IN  IF f.gender # "female" \/ f.isFlashing \/ f.isResponding THEN f
        ELSE IF f.flashInterval - f.flashPhase < 500 THEN f
        ELSE IF NearbyFlashFrom(h, order, self, domainScale, 1)
        THEN [f EXCEPT !.responseDelay = 400 + RandomTimes(r, 200), !.isResponding = TRUE]
        ELSE f

\* a clone() that leaves the new Firefly at the start of its flash cycle
cloneAtCycleStart(f) == [f EXCEPT !.trail = <<>>, !.flashPhase = 0]

\* clone(): a new Firefly at the same position (its trail empty, its random
\* fields overwritten by the original's)
clone(f) == [f EXCEPT !.trail = <<>>]

(***************************************************************************)
(* State.  Objects live in a heap and are named by their identity: the     *)
(* population and bestFirefly hold references, so that aliasing is visible.*)
(***************************************************************************)
VARIABLES
    params,             \* FireflyAlgorithm.params
    generation,         \* FireflyAlgorithm.generation
    fireflies,          \* FireflyAlgorithm.fireflies: the references, in order
    bestFirefly,        \* FireflyAlgorithm.bestFirefly: a reference or Null
    objectiveFunction,  \* FireflyAlgorithm.objectiveFunction
    heap,               \* the Firefly objects reachable from the two above
    lastFrameTime,      \* Renderer.lastFrameTime
    controller,         \* UIController: isRunning, speed, timeScale,
                        \* animationId, lastStepTime
    browser,            \* the window: its clock, the animation-frame callbacks
                        \* requested and not yet run or cancelled, the next
                        \* request id, and when step() was last called
    lastCall            \* the latest call: its arguments, the Firefly methods
                        \* it invoked, what it returned, whether it threw

vars == <<params, generation, fireflies, bestFirefly, objectiveFunction, heap,
          lastFrameTime, controller, browser, lastCall>>

\* the FireflyAlgorithm object
This ==
    [params |-> params, generation |-> generation, fireflies |-> fireflies,
     bestFirefly |-> bestFirefly, objectiveFunction |-> objectiveFunction,
     heap |-> heap]

Range(seq) == {seq[k] : k \in 1..Len(seq)}

\* the identity of an object created next: none of those that exist
Alloc(h) ==
    CHOOSE id \in 1..(Cardinality(DOMAIN h) + 1) :
        id \notin DOMAIN h /\ \A other \in 1..(id - 1) : other \in DOMAIN h

\* what a call returns: the object afterwards, whether it threw, and the
\* Firefly methods it called (step records them)
Returned(S) == [st |-> S, threw |-> FALSE, calls |-> <<>>]

Threw(S) == [st |-> S, threw |-> TRUE, calls |-> <<>>]

(***************************************************************************)
(* firefly-algorithm.js: class FireflyAlgorithm                            *)
(***************************************************************************)
\* the scan of updateBest: the first firefly of lowest value
RECURSIVE LowestFrom(_, _, _, _)
LowestFrom(h, order, k, best) ==
    IF k > Len(order) THEN best
    ELSE LowestFrom(h, order, k + 1,
                    IF h[order[k]].value < h[best].value THEN order[k] ELSE best)

\* an updateBest() that keeps the best of the population, whatever was found
\* before
updateBestOfPopulation(S) ==
    IF S.fireflies = <<>> THEN Threw(S)
    ELSE Returned([S EXCEPT
            !.heap = Alloc(S.heap) :> clone(S.heap[LowestFrom(S.heap, S.fireflies, 1,
                                                             S.fireflies[1])])
                     @@ S.heap,
            !.bestFirefly = Alloc(S.heap)])

\* an updateBest() that keeps a reference to the best firefly, not a clone
updateBestByReference(S) ==
    IF S.fireflies = <<>> THEN Threw(S)
    ELSE IF S.bestFirefly = Null
            \/ S.heap[LowestFrom(S.heap, S.fireflies, 1, S.fireflies[1])].value
                   < S.heap[S.bestFirefly].value
    THEN Returned([S EXCEPT !.bestFirefly =
                      LowestFrom(S.heap, S.fireflies, 1, S.fireflies[1])])
    ELSE Returned(S)

\* updateBest(): reading fireflies[0].value of an empty population, or
\* cloning an object without objective function, is a TypeError
updateBest(S) ==
    IF S.fireflies = <<>> THEN Threw(S)
    ELSE LET best == LowestFrom(S.heap, S.fireflies, 1, S.fireflies[1])
         IN  IF S.bestFirefly = Null
                \/ S.heap[best].value < S.heap[S.bestFirefly].value
             THEN IF S.heap[best].objectiveFunction = Undefined THEN Threw(S)
                  ELSE LET id == Alloc(S.heap)
                       IN  Returned([S EXCEPT !.heap = id :> clone(S.heap[best]) @@ S.heap,
                                              !.bestFirefly = id])
             ELSE Returned(S)

\* this.fireflies.push(new Firefly(x, y, this.objectiveFunction)) at a
\* domain-uniform random position; d holds the six Math.random() results
PushRandomFirefly(S, d) ==
    LET domain == DomainOf(S.objectiveFunction)
        x == domain.xMin + RandomTimes(d.x, domain.xMax - domain.xMin)
        y == domain.yMin + RandomTimes(d.y, domain.yMax - domain.yMin)
        id == Alloc(S.heap)
    IN  [S EXCEPT !.heap = id :> NewFirefly(x, y, S.objectiveFunction, d) @@ S.heap,
                  !.fireflies = Append(S.fireflies, id)]

\* the creation loops of initialize and adjustPopulation: one firefly per
\* entry of draws[k..]
RECURSIVE PushAll(_, _, _)
PushAll(S, draws, k) ==
    IF k > Len(draws) THEN S
    ELSE PushAll(PushRandomFirefly(S, draws[k]), draws, k + 1)

\* an initialize() that keeps the fireflies there are
initializeKeeping(S, draws) ==
    IF S.objectiveFunction = Undefined THEN Threw([S EXCEPT !.generation = 0])
    ELSE updateBest(PushAll([S EXCEPT !.generation = 0], draws, 1))

\* initialize(); draws holds the Math.random() results of the params.n
\* fireflies created
initialize(S, draws) ==
    LET S1 == [S EXCEPT !.fireflies = <<>>, !.generation = 0]
    IN  IF S.objectiveFunction = Undefined THEN Threw(S1)
        ELSE updateBest(PushAll(S1, draws, 1))

\* reset()
reset(S, draws) == initialize(S, draws)

\* all results of Math.random()
Rand == 0..(RandDen - 1)

\* the k-th Math.random() result (k = 0, 1, ...) of a call whose results
\* repeat the sequence tape
Draw(tape, k) == tape[(k % Len(tape)) + 1]

\* The loops of step() work on a record c: the object (st), the local
\* variable moved, the Firefly methods called so far (calls: for each the
\* value and the trail length the firefly had and the position and value the
\* call left) and the number of Math.random() results used (k).

\* c after a Firefly method op(..., alpha, domain) that left firefly i with a
\* value it had before
StaleCalled(c, op, i, j, alpha, f, moved) ==
    [st |-> [c.st EXCEPT !.heap[c.st.fireflies[i]] =
                [f EXCEPT !.value = c.st.heap[c.st.fireflies[i]].value]],
     moved |-> moved,
     calls |-> Append(c.calls, [op |-> op, i |-> i, j |-> j, alpha |-> alpha,
                                was |-> c.st.heap[c.st.fireflies[i]].value,
                                trailWas |-> Len(c.st.heap[c.st.fireflies[i]].trail),
                                x |-> f.x, y |-> f.y, value |-> f.value]),
     k |-> c.k + 2]

\* c after a Firefly method op(..., alpha, domain) has left firefly i as f
Called(c, op, i, j, alpha, f, moved) ==
    [st |-> [c.st EXCEPT !.heap[c.st.fireflies[i]] = f],
     moved |-> moved,
     calls |-> Append(c.calls, [op |-> op, i |-> i, j |-> j, alpha |-> alpha,
                                was |-> c.st.heap[c.st.fireflies[i]].value,
                                trailWas |-> Len(c.st.heap[c.st.fireflies[i]].trail),
                                x |-> f.x, y |-> f.y, value |-> f.value]),
     k |-> c.k + 2]

\* firefly.moveTowards(other, beta0, gamma, alpha, domain) of the inner loop
StepMoveTowards(c, tape, i, j) ==
    moveTowards(c.st.heap[c.st.fireflies[i]], c.st.heap[c.st.fireflies[j]],
                c.st.params.beta0, c.st.params.gamma, 10 * c.st.params.alpha,
                DomainOf(c.st.objectiveFunction),
                Draw(tape, c.k), Draw(tape, c.k + 1))

\* the inner loop of step() for firefly i, from j on
RECURSIVE StepInner(_, _, _, _)
StepInner(c, tape, i, j) ==
    IF j > Len(c.st.fireflies) THEN c
    ELSE IF i # j /\ c.st.heap[c.st.fireflies[j]].value < c.st.heap[c.st.fireflies[i]].value
    THEN StepInner(Called(c, "moveTowards", i, j, 10 * c.st.params.alpha,
                          StepMoveTowards(c, tape, i, j), TRUE),
                   tape, i, j + 1)
    ELSE StepInner(c, tape, i, j + 1)

\* firefly.randomWalk(alpha * 0.1, domain) of the outer loop
StepRandomWalk(c, tape, i) ==
    randomWalk(c.st.heap[c.st.fireflies[i]], c.st.params.alpha,
               DomainOf(c.st.objectiveFunction),
               Draw(tape, c.k), Draw(tape, c.k + 1))

\* an end of the outer loop's body that walks whether or not moved
StepAlwaysWalks(c, tape, i) ==
    Called(c, "randomWalk", i, i, c.st.params.alpha, StepRandomWalk(c, tape, i), FALSE)

\* the end of the outer loop's body for firefly i: if (!moved) randomWalk
StepUnmoved(c, tape, i) ==
    IF c.moved THEN c
    ELSE Called(c, "randomWalk", i, i, c.st.params.alpha,
                StepRandomWalk(c, tape, i), FALSE)

\* the outer loop of step(), from firefly i on
RECURSIVE StepOuter(_, _, _)
StepOuter(c, tape, i) ==
    IF i > Len(c.st.fireflies) THEN c
    ELSE StepOuter(StepUnmoved(StepInner([c EXCEPT !.moved = FALSE], tape, i, 1),
                               tape, i),
                   tape, i + 1)

\* an end of step() that counts no generation
StepEndUncounted(c) == [updateBest(c.st) EXCEPT !.calls = c.calls]

\* the end of step(): generation++, updateBest()
StepEnd(c) ==
    [updateBest([c.st EXCEPT !.generation = c.st.generation + 1])
       EXCEPT !.calls = c.calls]

\* step(); tape holds the Math.random() results of the moves.  The sorted
\* copy the code makes first is never read.  Reading objectiveFunction.domain
\* of undefined is a TypeError.
step(S, tape) ==
    IF S.objectiveFunction = Undefined
    THEN Threw(S)
    ELSE StepEnd(StepOuter([st |-> S, moved |-> FALSE, calls |-> <<>>, k |-> 0],
                           tape, 1))

\* fireflies.sort((a, b) => a.value - b.value): insertion of id into the
\* sorted sequence, after the entries that do not compare greater (stable)
RECURSIVE InsertByValue(_, _, _)
InsertByValue(h, sorted, id) ==
    IF sorted = <<>> THEN <<id>>
    ELSE IF h[id].value < h[sorted[Len(sorted)]].value
    THEN Append(InsertByValue(h, SubSeq(sorted, 1, Len(sorted) - 1), id), sorted[Len(sorted)])
    ELSE Append(sorted, id)

RECURSIVE SortByValueFrom(_, _, _, _)
SortByValueFrom(h, order, k, sorted) ==
    IF k > Len(order) THEN sorted
    ELSE SortByValueFrom(h, order, k + 1, InsertByValue(h, sorted, order[k]))

\* a sort that leaves the order as it is
Unsorted(h, order) == order

SortByValue(h, order) == SortByValueFrom(h, order, 1, <<>>)

\* Array.prototype.slice(0, end): a negative end counts from the end
Slice0(seq, end) ==
    LET last == IF end < 0 THEN Max(Len(seq) + end, 0) ELSE Min(end, Len(seq))
    IN  SubSeq(seq, 1, last)

\* an adjustPopulation(newN) that looks for a new best among the fireflies
\* added
adjustPopulationUpdatingBest(S, newN, draws) ==
    IF S.objectiveFunction = Undefined THEN Threw(S)
    ELSE IF newN > Len(S.fireflies) THEN updateBest(PushAll(S, draws, 1))
    ELSE IF newN < Len(S.fireflies)
    THEN Returned([S EXCEPT !.fireflies = Slice0(SortByValue(S.heap, S.fireflies), newN)])
    ELSE Returned(S)

\* an adjustPopulation(newN) that sorts and drops no firefly
adjustPopulationKeepingAll(S, newN, draws) ==
    IF S.objectiveFunction = Undefined THEN Threw(S)
    ELSE IF newN > Len(S.fireflies) THEN Returned(PushAll(S, draws, 1))
    ELSE IF newN < Len(S.fireflies)
    THEN Returned([S EXCEPT !.fireflies = SortByValue(S.heap, S.fireflies)])
    ELSE Returned(S)

\* adjustPopulation(newN); draws holds the Math.random() results of the
\* fireflies added
adjustPopulation(S, newN, draws) ==
    IF S.objectiveFunction = Undefined THEN Threw(S)
    ELSE IF newN > Len(S.fireflies) THEN Returned(PushAll(S, draws, 1))
    ELSE IF newN < Len(S.fireflies)
    THEN Returned([S EXCEPT !.fireflies = Slice0(SortByValue(S.heap, S.fireflies), newN)])
    ELSE Returned(S)

\* newParams.k is present and truthy (a number other than 0, a string other
\* than the empty one)
Given(newParams, k) ==
    /\ k \in DOMAIN newParams
    /\ IF k = "functionKey" THEN newParams[k] # "" ELSE newParams[k] # 0

\* { ...this.params, ...newParams }
Merged(old, newParams) ==
    [k \in DOMAIN old |-> IF k \in DOMAIN newParams THEN newParams[k] ELSE old[k]]

\* the loop of setParams over fireflies[k..] after a function change
RECURSIVE RebindFrom(_, _)
RebindFrom(S, k) ==
    IF k > Len(S.fireflies) THEN S
    ELSE LET id == S.fireflies[k]
             f == [S.heap[id] EXCEPT !.objectiveFunction = S.objectiveFunction]
         IN  RebindFrom([S EXCEPT !.heap[id] =
                             evaluate(clampToDomain(f, DomainOf(S.objectiveFunction)))],
                        k + 1)

\* a function change that keeps bestFirefly unless a firefly is now lower
ChangeFunctionKeepingBest(S) ==
    LET S1 == [S EXCEPT !.objectiveFunction = objectiveFunctions(S.params.functionKey)]
    IN  IF S1.objectiveFunction = Undefined /\ S1.fireflies # <<>>
        THEN Threw([S1 EXCEPT !.heap[S1.fireflies[1]].objectiveFunction = Undefined])
        ELSE updateBest(RebindFrom(S1, 1))

\* the function-change part of setParams: with no such registry entry the
\* first firefly loses its objective function and reading undefined.domain
\* is a TypeError
ChangeFunction(S) ==
    LET S1 == [S EXCEPT !.objectiveFunction = objectiveFunctions(S.params.functionKey)]
    IN  IF S1.objectiveFunction = Undefined /\ S1.fireflies # <<>>
        THEN Threw([S1 EXCEPT !.heap[S1.fireflies[1]].objectiveFunction = Undefined])
        ELSE updateBest([RebindFrom(S1, 1) EXCEPT !.bestFirefly = Null])

\* how many fireflies setParams(newParams) creates
GrowCount(S, newParams) ==
    IF /\ Given(newParams, "n")
       /\ newParams.n # S.params.n
       /\ newParams.n > Len(S.fireflies)
       /\ IF Given(newParams, "functionKey")
          THEN newParams.functionKey \in FunctionKeys
          ELSE S.objectiveFunction # Undefined
    THEN newParams.n - Len(S.fireflies)
    ELSE 0

\* setParams(newParams)
setParams(S, newParams, draws) ==
    LET prevN == S.params.n
        prevFunc == S.params.functionKey
        S1 == [S EXCEPT !.params = Merged(S.params, newParams)]
        r1 == IF Given(newParams, "functionKey") /\ newParams.functionKey # prevFunc
              THEN ChangeFunction(S1)
              ELSE Returned(S1)
    IN  IF r1.threw THEN r1
        ELSE IF Given(newParams, "n") /\ newParams.n # prevN
        THEN adjustPopulation(r1.st, newParams.n, draws)
        ELSE r1

\* a getStats() that reports the first firefly of the population
getStatsOfFirst(S) ==
    IF S.bestFirefly = Null THEN Null
    ELSE [generation |-> S.generation,
          bestValue |-> S.heap[S.fireflies[1]].value,
          bestX |-> S.heap[S.fireflies[1]].x,
          bestY |-> S.heap[S.fireflies[1]].y,
          populationSize |-> Len(S.fireflies)]

\* getStats(): the record returned, or Null
getStats(S) ==
    IF S.bestFirefly = Null THEN Null
    ELSE [generation |-> S.generation,
          bestValue |-> S.heap[S.bestFirefly].value,
          bestX |-> S.heap[S.bestFirefly].x,
          bestY |-> S.heap[S.bestFirefly].y,
          populationSize |-> Len(S.fireflies)]

\* a clearTrails() that empties the trail of bestFirefly too and spares the
\* first firefly of the population
clearTrailsOfOthers(S) ==
    [S EXCEPT !.heap = [id \in DOMAIN S.heap |->
                           IF id # S.fireflies[1] THEN clearTrail(S.heap[id])
                           ELSE S.heap[id]]]

\* clearTrails()
clearTrails(S) ==
    [S EXCEPT !.heap = [id \in DOMAIN S.heap |->
                           IF id \in Range(S.fireflies) THEN clearTrail(S.heap[id])
                           ELSE S.heap[id]]]

(***************************************************************************)
(* firefly-algorithm.js: Renderer.render, the flash-timing part            *)
(***************************************************************************)
\* render is modelled with a context c: the algorithm object (st) and the
\* Firefly methods called so far (calls: for each the firefly as the call
\* found it and as it left it).
FlashCalled(c, op, k, deltaTime, f) ==
    [st |-> [c.st EXCEPT !.heap[c.st.fireflies[k]] = f],
     calls |-> Append(c.calls, [op |-> op, i |-> k, deltaTime |-> deltaTime,
                                was |-> c.st.heap[c.st.fireflies[k]],
                                left |-> f])]

\* the body of the first loop of render: the response check of fireflies[k]
\* if a female; d is the Math.random() result of the response delay
CheckOne(c, d, k) ==
    IF c.st.heap[c.st.fireflies[k]].gender = "female"
    THEN FlashCalled(c, "checkForNearbyFlash", k, 0,
                     checkForNearbyFlash(c.st.heap, c.st.fireflies, c.st.fireflies[k],
                                         DomainOf(c.st.objectiveFunction), d))
    ELSE c

\* the body of the second loop of render: the flash update of fireflies[k]
UpdateOne(c, deltaTime, k) ==
    FlashCalled(c, "updateFlash", k, deltaTime,
                updateFlash(c.st.heap[c.st.fireflies[k]], deltaTime))

\* the first loop of render over fireflies[k..]; r[k] is the Math.random()
\* result of the response delay of fireflies[k]. The context each iteration
\* leaves (next) is a value computed once.
RECURSIVE CheckFrom(_, _, _)
CheckFrom(c, r, k) ==
    IF k > Len(c.st.fireflies) THEN c
    ELSE CHOOSE end \in {CheckFrom(next, r, k + 1) : next \in {CheckOne(c, r[k], k)}} :
            TRUE

\* the second loop of render over fireflies[k..]
RECURSIVE UpdateFrom(_, _, _)
UpdateFrom(c, deltaTime, k) ==
    IF k > Len(c.st.fireflies) THEN c
    ELSE CHOOSE end \in {UpdateFrom(next, deltaTime, k + 1) :
                            next \in {UpdateOne(c, deltaTime, k)}} : TRUE

\* the scaled frame time render computes first; timeScale in 1/100
DeltaTime(last, timestamp, timeScale) ==
    LET rawDeltaTime == IF last # 0 THEN timestamp - last ELSE 16
    IN  Round(rawDeltaTime * timeScale, 100)

\* one loop of render over fireflies[k..] that checks and updates firefly by
\* firefly
RECURSIVE CheckUpdateFrom(_, _, _, _)
CheckUpdateFrom(c, r, deltaTime, k) ==
    IF k > Len(c.st.fireflies) THEN c
    ELSE CheckUpdateFrom(UpdateOne(CheckOne(c, r[k], k), deltaTime, k),
                         r, deltaTime, k + 1)

\* what render returns with: the object, the renderer's lastFrameTime (last)
\* and the calls made
Frame(c, threw, last) ==
    [st |-> c.st, threw |-> threw, calls |-> c.calls, lastFrameTime |-> last]

\* a render that runs that one loop
renderInterleaved(S, last, timestamp, timeScale, r) ==
    IF S.objectiveFunction = Undefined
    THEN Frame([st |-> S, calls |-> <<>>], TRUE, last)
    ELSE Frame(CheckUpdateFrom([st |-> S, calls |-> <<>>], r,
                               DeltaTime(last, timestamp, timeScale), 1),
               FALSE, timestamp)

\* render(algorithm, timestamp, timeScale) up to the flash updates, as a
\* method of the algorithm object S and the renderer's lastFrameTime.
\* Reading objectiveFunction.domain of undefined is a TypeError.
render(S, last, timestamp, timeScale, r) ==
    IF S.objectiveFunction = Undefined
    THEN Frame([st |-> S, calls |-> <<>>], TRUE, last)
    ELSE CHOOSE end \in {Frame(UpdateFrom(checked, DeltaTime(last, timestamp, timeScale), 1),
                                FALSE, timestamp) :
                            checked \in {CheckFrom([st |-> S, calls |-> <<>>], r, 1)}} : TRUE

(***************************************************************************)
(* UIController: the run loop of the page.  U is the controller with the   *)
(* window it runs in: [controller, browser].                               *)
(***************************************************************************)
\* the fields the constructor sets; timeScale in 1/100, times in ms
NewController ==
    [isRunning |-> FALSE, speed |-> 1, timeScale |-> 5, animationId |-> Null,
     lastStepTime |-> 0]

\* the window when the page has loaded: performance.now() is now, no
\* animation frame is requested, requestAnimationFrame returns 1, 2, ...;
\* lastStepAt is when algorithm.step() was last called (Null: never)
NewBrowser ==
    [now |-> 1000, pending |-> {}, nextId |-> 1, lastStepAt |-> Null]

\* requestAnimationFrame(callback): the id it returns and the window after
requestAnimationFrame(B) ==
    [id |-> B.nextId,
     browser |-> [B EXCEPT !.pending = @ \cup {B.nextId}, !.nextId = @ + 1]]

\* cancelAnimationFrame(id)
cancelAnimationFrame(B, id) == [B EXCEPT !.pending = @ \ {id}]

\* start()
start(U) ==
    LET requested == requestAnimationFrame(U.browser)
    IN  [controller |-> [U.controller EXCEPT !.isRunning = TRUE,
                                             !.lastStepTime = U.browser.now,
                                             !.animationId = requested.id],
         browser |-> requested.browser]

\* a stop() that forgets the frame it requested without cancelling it
stopKeepingFrame(U) ==
    [controller |-> [U.controller EXCEPT !.isRunning = FALSE, !.animationId = Null],
     browser |-> U.browser]

\* stop()
stop(U) ==
    [controller |-> [U.controller EXCEPT !.isRunning = FALSE, !.animationId = Null],
     browser |-> IF U.controller.animationId # Null
                 THEN cancelAnimationFrame(U.browser, U.controller.animationId)
                 ELSE U.browser]

\* toggleRun()
toggleRun(U) == IF U.controller.isRunning THEN stop(U) ELSE start(U)

\* now - this.lastStepTime >= 1000 / this.speed, of animate
StepDue(C, now) == C.speed * (now - C.lastStepTime) >= 1000

(***************************************************************************)
(* The inputs of the model.                                                *)
(***************************************************************************)
\* the times of the page: MaxTicks display frames, 250 ms apart
UiTimes == {1000 + 250 * k : k \in 0..MaxTicks}

\* the positions of the speed slider
Speeds == {1, 2, 4}

\* the draw that puts a coordinate at the middle of its axis (RandDen = 2)
Mid == RandDen \div 2

\* the draw that makes a female
High == RandDen - 1

\* the six Math.random() results of a new firefly (its position, then the
\* constructor's four) at draws p of position and gender; one flash timing
NewDraws(p) ==
    [x |-> p[1], y |-> p[2], gender |-> p[3], phase |-> Mid, interval |-> Mid,
     duration |-> Mid]

MaleAtCorner == NewDraws(<<0, 0, 0>>)

MaleAtMiddle == NewDraws(<<Mid, Mid, 0>>)

FemaleAtMiddle == NewDraws(<<Mid, Mid, High>>)

FemaleAtEdge == NewDraws(<<0, Mid, High>>)

\* the draws of MaxN fireflies that repeat those of pattern
Repeated(pattern) ==
    [k \in 1..MaxN |-> pattern[((k - 1) % Len(pattern)) + 1]]

\* the draws of the populations a caller may get: two fireflies tied at the
\* middle, three of different values, none at the middle
SearchDraws ==
    { Repeated(<<MaleAtMiddle, FemaleAtMiddle, MaleAtCorner>>),
      Repeated(<<MaleAtCorner, FemaleAtEdge, FemaleAtMiddle>>),
      Repeated(<<FemaleAtEdge, MaleAtCorner, FemaleAtEdge>>) }

\* the draws of k new fireflies: the first k of one of D
DrawSeqs(D, k) == {SubSeq(d, 1, k) : d \in D}

\* the arguments a caller constructs the algorithm with
CtorArgs == {[n |-> MaxN, gamma |-> 1, functionKey |-> "sphere"]}

\* the arguments a caller passes to setParams: one parameter at a time, as
\* the controls of the page do
ParamUpdates ==
    {[n |-> k] : k \in (MaxN - 1)..MaxN} \cup {[functionKey |-> "rosenbrock"]}

\* the three polynomial functions of the registry
Polynomials == {"sphere", "himmelblau", "rosenbrock"}

\* the arguments a caller constructs a search of a polynomial with
PolynomialCtorArgs ==
    {[n |-> MaxN, gamma |-> 1, functionKey |-> key] : key \in Polynomials}

\* the coordinates a caller seeds a firefly at: the whole numbers from -2
\* to 3
SeedCoordinates == {100 * k : k \in -2..3}

\* the setParams calls that change n only
ResizeUpdates == {[n |-> k] : k \in 1..MaxN}

\* the draws of the fireflies a larger n adds
GrowDraws == {Repeated(<<FemaleAtEdge>>)}

\* arguments of setParams that are no parameters of a search: a key the
\* registry does not have, a population size or a coefficient out of range
InvalidParamUpdates ==
    {[functionKey |-> "bogus"], [n |-> 0], [n |-> -1], [gamma |-> -1000]}

\* the arguments a caller changes parameters with between restarts
RestartUpdates == {[functionKey |-> "rosenbrock"], [n |-> MaxN - 1]}

\* the draws of a population with a male and a female close to each other
FrameDraws == {Repeated(<<MaleAtMiddle, FemaleAtMiddle, MaleAtCorner>>)}

\* the time scales of frames that never end: the caller passes timestamp 0
\* with every frame, so lastFrameTime stays 0, the raw deltaTime of every
\* frame is 16 ms, and deltaTime is 40 or 500 ms
CycleTimeScales == {250, 3125}

\* a male and a female close to each other whose cycles have just begun, the
\* female's of the shortest interval
EarlyMale == [MaleAtMiddle EXCEPT !.phase = 0]

EarlyFemale == [FemaleAtMiddle EXCEPT !.phase = 0, !.interval = 0]

\* the draws of the populations of a flash sequence
FlashDraws ==
    FrameDraws \cup {Repeated(<<EarlyMale, EarlyFemale, MaleAtCorner>>)}

\* a female beside the males whose phase is drawn at her interval
LateFemale == [FemaleAtMiddle EXCEPT !.interval = 0]

\* the draws of populations with such a female, and of the fireflies a
\* larger n adds
FreshDraws == {Repeated(<<MaleAtMiddle, LateFemale, EarlyMale>>)}

FreshGrowDraws == {Repeated(<<LateFemale>>)}

\* the draws of populations with two females
ChorusDraws ==
    { Repeated(<<FemaleAtMiddle, MaleAtMiddle, FemaleAtMiddle>>),
      Repeated(<<MaleAtMiddle, FemaleAtMiddle, FemaleAtEdge>>),
      Repeated(<<EarlyFemale, FemaleAtMiddle, EarlyMale>>) }

\* the Math.random() results of the response delays of n fireflies: all the
\* same, or one after the other
ChorusDelays(n) == {[k \in 1..n |-> 0], [k \in 1..n |-> k % RandDen]}

\* a long search: step() is called until generation has reached MaxLongGen,
\* every Math.random() result of its moves being 0
MaxLongGen == 22

LongTapes == {<<0, 0>>}

\* the Math.random() results of one step(): they repeat with this period
TapeLen == 2

Tapes == [1..TapeLen -> Rand]

\* the animation frames: at most MaxFrames, 40 ms apart
MaxFrames == 3

FrameTimes == {1000 + 40 * k : k \in 0..(MaxFrames - 1)}

\* the timestamp of the frame after the one at last (0: none yet)
FrameAfter(last) == IF last = 0 THEN 1000 ELSE last + 40

\* timeScale, in 1/100
TimeScales == {100}

\* the frames of a flash sequence: at most MaxFlashFrames, 40 ms apart, with
\* time scales that make deltaTime 40, 60 and 500 ms (16, 24 and 200 ms in
\* the first frame)
MaxFlashFrames == 12

FlashFrameTimes == {1000 + 40 * k : k \in 0..(MaxFlashFrames - 1)}

FlashTimeScales == {100, 150, 1250}

(***************************************************************************)
(* Actions: one per call of a public method.                               *)
(***************************************************************************)
\* The model names the objects of a state by where they are referenced from:
\* fireflies[k] is object k and a bestFirefly that is no member of fireflies is
\* object Len(fireflies) + 1.  NameOf(S, id) is that name of object id of S.
NameOf(S, id) ==
    IF id \in Range(S.fireflies)
    THEN CHOOSE k \in 1..Len(S.fireflies) :
            S.fireflies[k] = id /\ \A l \in 1..(k - 1) : S.fireflies[l] # id
    ELSE Len(S.fireflies) + 1

\* the object S with its objects so named; objects no longer referenced are
\* gone
Named(S) ==
    LET live == Range(S.fireflies) \cup ({S.bestFirefly} \ {Null})
    IN  [S EXCEPT
           !.fireflies = [k \in 1..Len(S.fireflies) |-> NameOf(S, S.fireflies[k])],
           !.bestFirefly = IF S.bestFirefly = Null THEN Null
                           ELSE NameOf(S, S.bestFirefly),
           !.heap = [name \in {NameOf(S, id) : id \in live} |->
                        S.heap[CHOOSE id \in live : NameOf(S, id) = name]]]

\* where the objects of S come from, S being what a call made of the object
\* Old: for each firefly its place in Old.fireflies (0: created in the call),
\* and whether bestFirefly is the object it was
Origin(Old, S) ==
    [fireflies |-> [k \in 1..Len(S.fireflies) |->
                       IF S.fireflies[k] \in Range(Old.fireflies)
                       THEN NameOf(Old, S.fireflies[k]) ELSE 0],
     bestKept |-> S.bestFirefly = Old.bestFirefly]

\* the state after a call that left the object as r.st
Commit(r, op, args, result) ==
    LET st == Named(r.st)
    IN  /\ params' = st.params
        /\ generation' = st.generation
        /\ fireflies' = st.fireflies
        /\ bestFirefly' = st.bestFirefly
        /\ objectiveFunction' = st.objectiveFunction
        /\ heap' = st.heap
        /\ lastCall' = [op |-> op, args |-> args, threw |-> r.threw,
                        calls |-> r.calls, result |-> result,
                        origin |-> Origin(This, r.st)]

\* new FireflyAlgorithm(args): the object before the constructor's
\* initialize()
Constructed(args) ==
    [params |-> [n |-> IF Given(args, "n") THEN args.n ELSE 40,
                 gamma |-> IF Given(args, "gamma") THEN args.gamma ELSE 1000,
                 beta0 |-> IF Given(args, "beta0") THEN args.beta0 ELSE 1000,
                 alpha |-> IF Given(args, "alpha") THEN args.alpha ELSE 200,
                 functionKey |-> IF Given(args, "functionKey") THEN args.functionKey
                                 ELSE "michalewicz"],
     generation |-> 0, fireflies |-> <<>>, bestFirefly |-> Null,
     objectiveFunction |->
         objectiveFunctions(IF Given(args, "functionKey") THEN args.functionKey
                            ELSE "michalewicz"),
     heap |-> <<>>]

\* the state after new FireflyAlgorithm(args) and new Renderer(canvas)
InitWith(A, D) ==
    \E args \in A :
      \E draws \in DrawSeqs(D, Constructed(args).params.n) :
        LET st == Named(initialize(Constructed(args), draws).st)
        IN  /\ params = st.params
            /\ generation = st.generation
            /\ fireflies = st.fireflies
            /\ bestFirefly = st.bestFirefly
            /\ objectiveFunction = st.objectiveFunction
            /\ heap = st.heap
            /\ lastFrameTime = 0
            /\ controller = NewController
            /\ browser = NewBrowser
            /\ lastCall = [op |-> "constructor", args |-> args, threw |-> FALSE,
                           calls |-> <<>>, result |-> Null,
                           origin |-> Origin(Constructed(args), st)]

Initialize(D) ==
    \E draws \in DrawSeqs(D, params.n) :
        /\ Commit(initialize(This, draws), "initialize", <<>>, Null)
        /\ UNCHANGED <<lastFrameTime, controller, browser>>

Reset(D) ==
    \E draws \in DrawSeqs(D, params.n) :
        /\ Commit(reset(This, draws), "reset", <<>>, Null)
        /\ UNCHANGED <<lastFrameTime, controller, browser>>

\* what step() returns: { generation, best: this.bestFirefly, fireflies:
\* this.fireflies }
StepResult(S) ==
    [generation |-> S.generation, best |-> "bestFirefly", fireflies |-> "fireflies"]

Stepped(o) == Commit(o, "step", <<>>, IF o.threw THEN Null ELSE StepResult(o.st))

Step ==
    /\ generation < MaxGen
    /\ \E tape \in Tapes : Stepped(step(This, tape))
    /\ UNCHANGED <<lastFrameTime, controller, browser>>

\* step() of a long search
LongStep ==
    /\ generation < MaxLongGen
    /\ \E tape \in LongTapes : Stepped(step(This, tape))
    /\ UNCHANGED <<lastFrameTime, controller, browser>>

SetParams(P, D) ==
    \E newParams \in P :
      \E draws \in DrawSeqs(D, GrowCount(This, newParams)) :
        /\ Commit(setParams(This, newParams, draws), "setParams", newParams, Null)
        /\ UNCHANGED <<lastFrameTime, controller, browser>>

Rendered(o, args) ==
    /\ Commit(o, "render", args, Null)
    /\ lastFrameTime' = o.lastFrameTime
    /\ UNCHANGED <<controller, browser>>

\* a frame; d is the Math.random()
\* result of the response delays
Render ==
    \E timestamp \in FrameTimes, timeScale \in TimeScales, d \in Rand :
        /\ timestamp = FrameAfter(lastFrameTime)
        /\ Rendered(render(This, lastFrameTime, timestamp, timeScale,
                           [k \in 1..Len(fireflies) |-> d]),
                    [timestamp |-> timestamp, timeScale |-> timeScale])

\* a frame of a flash sequence
FlashFrame ==
    \E timestamp \in FlashFrameTimes, timeScale \in FlashTimeScales, d \in Rand :
        /\ timestamp = FrameAfter(lastFrameTime)
        /\ Rendered(render(This, lastFrameTime, timestamp, timeScale,
                           [k \in 1..Len(fireflies) |-> d]),
                    [timestamp |-> timestamp, timeScale |-> timeScale])

\* a frame at timestamp 0
CycleFrame ==
    \E timeScale \in CycleTimeScales, d \in Rand :
        \E o \in {render(This, lastFrameTime, 0, timeScale,
                         [k \in 1..Len(fireflies) |-> d])} :
            Rendered(o, [timestamp |-> 0, timeScale |-> timeScale])

\* fireflies[k].checkForNearbyFlash(fireflies, domain), called on any
\* firefly
\* a frame whose response delays are drawn one by one
ChorusFrame ==
    \E timestamp \in FlashFrameTimes, timeScale \in FlashTimeScales :
      \E r \in ChorusDelays(Len(fireflies)) :
        /\ timestamp = FrameAfter(lastFrameTime)
        /\ \E o \in {render(This, lastFrameTime, timestamp, timeScale, r)} :
              Rendered(o, [timestamp |-> timestamp, timeScale |-> timeScale])

CheckForNearbyFlash ==
    \E k \in 1..Len(fireflies), d \in Rand :
        /\ objectiveFunction # Undefined
        /\ Commit(Frame(FlashCalled([st |-> This, calls |-> <<>>],
                                    "checkForNearbyFlash", k, 0,
                                    checkForNearbyFlash(heap, fireflies, fireflies[k],
                                                        DomainOf(objectiveFunction), d)),
                        FALSE, lastFrameTime),
                  "checkForNearbyFlash", [i |-> k], Null)
        /\ UNCHANGED <<lastFrameTime, controller, browser>>

GetStats ==
    /\ Commit(Returned(This), "getStats", <<>>, getStats(This))
    /\ UNCHANGED <<lastFrameTime, controller, browser>>

ClearTrails ==
    /\ Commit(Returned(clearTrails(This)), "clearTrails", <<>>, Null)
    /\ UNCHANGED <<lastFrameTime, controller, browser>>

\* new Firefly(x, y, this.objectiveFunction) at a position the caller
\* chooses; the firefly joins no population
NewFireflyAt ==
    \E x \in SeedCoordinates, y \in SeedCoordinates :
        /\ x >= DomainOf(objectiveFunction).xMin /\ x <= DomainOf(objectiveFunction).xMax
        /\ y >= DomainOf(objectiveFunction).yMin /\ y <= DomainOf(objectiveFunction).yMax
        /\ Commit(Returned(This), "Firefly",
                  [x |-> x, y |-> y, objectiveFunction |-> objectiveFunction],
                  NewFirefly(x, y, objectiveFunction, MaleAtMiddle))
        /\ UNCHANGED <<lastFrameTime, controller, browser>>

\* getFunctionRange(funcKey, resolution) of the contour plot
GetFunctionRange ==
    \E funcKey \in FunctionKeys, resolution \in 0..MaxResolution :
        LET range == getFunctionRange(funcKey, resolution)
        IN  /\ Commit([Returned(This) EXCEPT !.calls = range.calls], "getFunctionRange",
                      [funcKey |-> funcKey, resolution |-> resolution],
                      [min |-> range.min, max |-> range.max])
            /\ UNCHANGED <<lastFrameTime, controller, browser>>

\* the controller and its window
Ui == [controller |-> controller, browser |-> browser]

\* Space, p or the start button: toggleRun()
ToggleRun ==
    /\ controller.isRunning \/ browser.nextId <= MaxHandles
    /\ \E u \in {toggleRun(Ui)} :
          /\ controller' = u.controller
          /\ browser' = u.browser
    /\ Commit(Returned(This), "toggleRun", <<>>, Null)
    /\ UNCHANGED lastFrameTime

\* r or the reset button: UIController.reset(), which stops, resets the
\* algorithm, clears the trails and renders a first frame (timestamp
\* performance.now(), timeScale 1.0) with lastFrameTime = 0
UiReset ==
    \E draws \in DrawSeqs(FrameDraws, params.n) :
      \E u \in {stop(Ui)} :
        \E o \in {render(clearTrails(reset(This, draws).st), 0, browser.now, 100,
                         [k \in 1..params.n |-> 0])} :
            /\ controller' = u.controller
            /\ browser' = u.browser
            /\ Commit(o, "UIController.reset", <<>>, Null)
            /\ lastFrameTime' = o.lastFrameTime

\* the speed slider
SetSpeed ==
    \E speed \in Speeds :
        /\ speed # controller.speed
        /\ controller' = [controller EXCEPT !.speed = speed]
        /\ UNCHANGED <<params, generation, fireflies, bestFirefly, objectiveFunction,
                       heap, lastFrameTime, browser, lastCall>>

\* the display goes on to its next frame
Elapse ==
    /\ browser.now + 250 \in UiTimes
    /\ browser' = [browser EXCEPT !.now = @ + 250]
    /\ UNCHANGED <<params, generation, fireflies, bestFirefly, objectiveFunction,
                   heap, lastFrameTime, controller, lastCall>>

\* the step() of animate, as one of the calls of the frame
StepCall(o) == [op |-> "step", threw |-> o.threw, generation |-> o.st.generation]

\* the window runs a requested callback: animate(timestamp).  It returns at
\* once when not running; else it steps if a step is due, renders and
\* requests the next frame.  A step() or render() that throws ends it there.
Animate ==
    \E id \in browser.pending :
        IF ~controller.isRunning
        THEN /\ browser' = [browser EXCEPT !.pending = @ \ {id}]
             /\ Commit(Returned(This), "animate", [id |-> id, timestamp |-> browser.now],
                       Null)
             /\ UNCHANGED <<lastFrameTime, controller>>
        ELSE /\ browser.nextId <= MaxHandles
             /\ \E due \in {StepDue(controller, browser.now)}, tape \in LongTapes :
                 \E stepped \in {IF due THEN step(This, tape) ELSE Returned(This)} :
                 \E o \in {IF stepped.threw
                           THEN Frame([st |-> stepped.st, calls |-> <<>>], TRUE,
                                      lastFrameTime)
                           ELSE render(stepped.st, lastFrameTime, browser.now,
                                       controller.timeScale,
                                       [k \in 1..Len(stepped.st.fireflies) |-> 0])} :
                 \E requested \in {requestAnimationFrame(
                                       [browser EXCEPT !.pending = @ \ {id}])} :
                    /\ controller' =
                          [controller EXCEPT
                              !.lastStepTime = IF due /\ ~stepped.threw
                                               THEN browser.now ELSE @,
                              !.animationId = IF o.threw THEN @ ELSE requested.id]
                    /\ browser' =
                          [(IF o.threw THEN [browser EXCEPT !.pending = @ \ {id}]
                            ELSE requested.browser)
                           EXCEPT !.lastStepAt = IF due THEN browser.now ELSE @]
                    /\ Commit([o EXCEPT !.calls = (IF due THEN <<StepCall(stepped)>>
                                                   ELSE <<>>) \o @],
                              "animate", [id |-> id, timestamp |-> browser.now], Null)
                    /\ lastFrameTime' = o.lastFrameTime

(***************************************************************************)
(* Specifications.                                                         *)
(***************************************************************************)
Init == InitWith(CtorArgs, SearchDraws)

\* one search: steps, parameter changes and queries, in any order
Next ==
    \/ Step
    \/ SetParams(ParamUpdates, GrowDraws)
    \/ GetStats
    \/ ClearTrails

Spec == Init /\ [][Next]_vars

\* one search on the page: the above and animation frames
InitFrames == InitWith(CtorArgs, FrameDraws)

NextFrames ==
    \/ Step
    \/ SetParams(ParamUpdates, GrowDraws)
    \/ GetStats
    \/ ClearTrails
    \/ Render

SpecFrames == InitFrames /\ [][NextFrames]_vars

\* one search and the ranges its contour plots ask for
NextRange ==
    \/ Step
    \/ GetFunctionRange

SpecRange == Init /\ [][NextRange]_vars

\* the frames of a population with two females
InitChorus == InitWith(CtorArgs, ChorusDraws)

NextChorus == ChorusFrame

SpecChorus == InitChorus /\ [][NextChorus]_vars

\* the frames of a population that fireflies join
InitFresh == InitWith(CtorArgs, FreshDraws)

NextFresh ==
    \/ Render
    \/ CheckForNearbyFlash
    \/ SetParams(ParamUpdates, FreshGrowDraws)

SpecFresh == InitFresh /\ [][NextFresh]_vars

\* the page: start/pause toggles, resets, speed changes and animation
\* frames, in any order
InitUi == InitWith(CtorArgs, FrameDraws)

NextUi ==
    \/ ToggleRun
    \/ UiReset
    \/ SetSpeed
    \/ Elapse
    \/ Animate

SpecUi == InitUi /\ [][NextUi]_vars

\* one search of a polynomial and fireflies seeded at chosen positions
InitSeeded == InitWith(PolynomialCtorArgs, SearchDraws)

NextSeeded ==
    \/ Step
    \/ NewFireflyAt

SpecSeeded == InitSeeded /\ [][NextSeeded]_vars

\* searches and restarts
NextRestart ==
    \/ Step
    \/ SetParams(RestartUpdates, GrowDraws)
    \/ Initialize(SearchDraws)
    \/ Reset(SearchDraws)

SpecRestart == Init /\ [][NextRestart]_vars

\* one search of a caller that passes setParams such arguments
NextInvalidArgs ==
    \/ Step
    \/ SetParams(InvalidParamUpdates, GrowDraws)
    \/ GetStats

SpecInvalidArgs == Init /\ [][NextInvalidArgs]_vars

\* a search whose population is shrunk and grown
NextResize ==
    \/ Step
    \/ SetParams(ResizeUpdates, SearchDraws)

SpecResize == Init /\ [][NextResize]_vars

\* the flash timing of a population over a sequence of frames
NextFlash ==
    \/ FlashFrame
    \/ CheckForNearbyFlash

InitFlash == InitWith(CtorArgs, FlashDraws)

SpecFlash == InitFlash /\ [][NextFlash]_vars

\* frames without end: the animation loop calls render again and again
NextCycle == CycleFrame

SpecCycle == InitFrames /\ [][NextCycle]_vars /\ WF_vars(CycleFrame)

\* one long search, its trails cleared now and then
NextLong ==
    \/ LongStep
    \/ ClearTrails

SpecLong == Init /\ [][NextLong]_vars

(***************************************************************************)
(* Properties.                                                             *)
(***************************************************************************)
\* the calls of the latest step()
StepCalls == lastCall.calls

\* the latest call was a step() that returned
StepReturned == lastCall.op = "step" /\ ~lastCall.threw

\* C1: across step() calls bestFirefly.value never increases: the value after
\* a step() is at most the value before it.
C1_BestNeverRegresses ==
    [][lastCall'.op = "step" /\ bestFirefly # Null /\ bestFirefly' # Null
         => heap'[bestFirefly'].value <= heap[bestFirefly].value]_vars

\* a second step() has left every firefly of the population worse than the
\* best found
C1_Witness ==
    /\ StepReturned
    /\ generation = MaxGen
    /\ \A k \in 1..Len(fireflies) : heap[fireflies[k]].value > heap[bestFirefly].value

\* the calls of the step made before firefly i is compared with firefly j
CallsBefore(calls, i, j) ==
    {m \in 1..Len(calls) :
        \/ calls[m].i < i
        \/ calls[m].i = i /\ calls[m].op = "moveTowards" /\ calls[m].j < j}

\* the value firefly a had when the step began: the one its first call found
ValueAtStart(calls, a) ==
    calls[CHOOSE m \in 1..Len(calls) :
             calls[m].i = a /\ \A l \in 1..(m - 1) : calls[l].i # a].was

\* the value firefly a has when firefly i is compared with firefly j: the one
\* its latest call before left
ValueWhenCompared(calls, i, j, a) ==
    LET prior == {m \in CallsBefore(calls, i, j) : calls[m].i = a}
    IN  IF prior = {} THEN ValueAtStart(calls, a)
        ELSE calls[CHOOSE m \in prior : \A l \in prior : l <= m].value

\* the step called fireflies[i].moveTowards(fireflies[j], ...)
MovedTowards(calls, i, j) ==
    \E m \in 1..Len(calls) :
        calls[m].op = "moveTowards" /\ calls[m].i = i /\ calls[m].j = j

\* C2: within one step() firefly i moves towards firefly j exactly when j's
\* current value (updated in this step when j < i) is lower than i's value as
\* evaluated after its earlier moves of the same pass.
C2_ComparesCurrentValues ==
    StepReturned =>
        \A i, j \in 1..Len(fireflies) :
            i # j =>
                (MovedTowards(StepCalls, i, j)
                    <=> ValueWhenCompared(StepCalls, i, j, j)
                            < ValueWhenCompared(StepCalls, i, j, i))

\* a step() whose moves are not those of the values the step began with
C2_Witness ==
    /\ StepReturned
    /\ \E i, j \in 1..Len(fireflies) :
          /\ i # j
          /\ MovedTowards(StepCalls, i, j)
          /\ ~(ValueAtStart(StepCalls, j) < ValueAtStart(StepCalls, i))

\* the latest call was a render() that returned
RenderReturned == lastCall.op = "render" /\ ~lastCall.threw

\* firefly k is a female free to respond, and a male other than k within 0.2
\* of the domain's larger side shows an intensity above 0.5
SeesFlash(k) ==
    LET f == heap[fireflies[k]]
        domain == DomainOf(objectiveFunction)
        domainScale == Max(domain.xMax - domain.xMin, domain.yMax - domain.yMin)
    IN  /\ f.gender = "female"
        /\ ~f.isFlashing
        /\ ~f.isResponding
        /\ f.flashInterval - f.flashPhase >= 500
        /\ \E m \in 1..Len(fireflies) :
              /\ m # k
              /\ heap[fireflies[m]].gender = "male"
              /\ heap[fireflies[m]].flashIntensity > 500
              /\ 25 * distanceToSq(f, heap[fireflies[m]]) < domainScale * domainScale

\* C3: in a frame every response check comes before any flash update: a
\* female starts to respond in the frame exactly when she is free to and a
\* male nearby shows, by the intensity the frame before left, a bright flash.
C3_ChecksBeforeUpdates ==
    [][lastCall'.op = "render" /\ ~lastCall'.threw /\ lastFrameTime' # lastFrameTime
         => \A k \in 1..Len(fireflies) :
               (~heap[fireflies[k]].isResponding /\ heap'[fireflies'[k]].isResponding)
                   <=> SeesFlash(k)]_vars

\* a frame in which a female has started to respond: her delay is the one
\* drawn less the frame's 40 ms
C3_Witness ==
    /\ RenderReturned
    /\ \E k \in 1..Len(fireflies) :
          /\ heap[fireflies[k]].gender = "female"
          /\ heap[fireflies[k]].isResponding
          /\ heap[fireflies[k]].responseDelay + 40 \in {400, 500}

\* the algorithm object is as it was
Untouched ==
    UNCHANGED <<params, objectiveFunction, fireflies, heap, generation, bestFirefly>>

\* C4: setParams with a functionKey that is none of the five registered keys
\* fails and leaves params, the objective function, the population,
\* generation and bestFirefly as they were.
C4_UnknownFunctionKeyRejected ==
    [][/\ lastCall'.op = "setParams"
       /\ "functionKey" \in DOMAIN lastCall'.args
       /\ lastCall'.args.functionKey \notin FunctionKeys
         => lastCall'.threw /\ Untouched]_vars

\* args holds a population size that is not positive or a negative
\* coefficient
InvalidParameter(args) ==
    \/ "n" \in DOMAIN args /\ args.n <= 0
    \/ \E k \in {"gamma", "beta0", "alpha"} \cap DOMAIN args : args[k] < 0

\* C5: setParams with n <= 0 or a negative gamma, beta0 or alpha fails and
\* leaves params, the population, generation and bestFirefly as they were.
C5_InvalidParameterRejected ==
    [][lastCall'.op = "setParams" /\ InvalidParameter(lastCall'.args)
         => lastCall'.threw /\ Untouched]_vars

\* the latest call was an initialize() or reset() that returned
Restarted == lastCall.op \in {"initialize", "reset"} /\ ~lastCall.threw

\* the lowest value of the population
LowestValue ==
    CHOOSE v \in {heap[fireflies[k]].value : k \in 1..Len(fireflies)} :
        \A k \in 1..Len(fireflies) : v <= heap[fireflies[k]].value

\* C6: after initialize() or reset() bestFirefly is a clone of a firefly of
\* lowest value of the population just created, whatever was held before: it
\* has the position and the value of such a firefly.
C6_BestOfFreshPopulation ==
    Restarted =>
        /\ bestFirefly # Null
        /\ \E k \in 1..Len(fireflies) :
              /\ heap[fireflies[k]].value = LowestValue
              /\ heap[bestFirefly].value = heap[fireflies[k]].value
              /\ heap[bestFirefly].x = heap[fireflies[k]].x
              /\ heap[bestFirefly].y = heap[fireflies[k]].y

\* C7: bestFirefly is no firefly of the population, and a call that leaves
\* the reference as it was leaves the object as it was: its position and value
\* change only when bestFirefly is replaced.
C7_BestIsImmutableClone ==
    /\ bestFirefly # Null => bestFirefly \notin Range(fireflies)
    /\ [][/\ bestFirefly' # Null => bestFirefly' \notin Range(fireflies')
          /\ bestFirefly # Null /\ lastCall'.origin.bestKept
               => heap'[bestFirefly'] = heap[bestFirefly]]_vars

\* a step() that moved every firefly and kept the best found, after a frame
\* and a change of the population size
C7_Witness ==
    /\ StepReturned
    /\ lastCall.origin.bestKept
    /\ lastFrameTime # 0
    /\ Len(fireflies) < MaxN
    /\ \A k \in 1..Len(fireflies) : heap[fireflies[k]].value > heap[bestFirefly].value

\* the fireflies of the population lie in the domain of the objective function
InDomain ==
    \A k \in 1..Len(fireflies) :
        /\ heap[fireflies[k]].x >= DomainOf(objectiveFunction).xMin
        /\ heap[fireflies[k]].x <= DomainOf(objectiveFunction).xMax
        /\ heap[fireflies[k]].y >= DomainOf(objectiveFunction).yMin
        /\ heap[fireflies[k]].y <= DomainOf(objectiveFunction).yMax

\* C8: after initialize() and reset() the population has params.n fireflies,
\* generation is 0 and every firefly lies in the domain of the objective
\* function.
C8_FreshPopulation ==
    Restarted => Len(fireflies) = params.n /\ generation = 0 /\ InDomain

\* a reset() after the population size and the function were changed
C8_Witness ==
    /\ Restarted
    /\ lastCall.op = "reset"
    /\ params.n = MaxN - 1
    /\ objectiveFunction = "rosenbrock"

\* C9: step() increases generation by exactly 1; setParams (a change of
\* function or of size too), render, clearTrails and getStats leave it as it
\* is, so that generation, 0 when the population is created, counts the steps
\* made since.
C9_GenerationCountsSteps ==
    /\ generation = 0
    /\ [][/\ lastCall'.op = "step" /\ ~lastCall'.threw => generation' = generation + 1
          /\ lastCall'.op \in {"setParams", "render", "clearTrails", "getStats"}
               => generation' = generation]_vars

\* a change of function after the last step, with frames shown
C9_Witness ==
    /\ lastCall.op = "setParams"
    /\ "functionKey" \in DOMAIN lastCall.args
    /\ generation = MaxGen
    /\ lastFrameTime # 0

\* the calls of the step on firefly i that are op
CallsOf(calls, op, i) ==
    {m \in 1..Len(calls) : calls[m].op = op /\ calls[m].i = i}

\* firefly i is one of several fireflies that had the lowest value when the
\* step began
TiedAtMinimum(calls, n, i) ==
    /\ \A j \in 1..n : ValueAtStart(calls, i) <= ValueAtStart(calls, j)
    /\ \E j \in 1..n : j # i /\ ValueAtStart(calls, j) = ValueAtStart(calls, i)

\* C10 as stated: in a step() each firefly makes randomWalk(alpha * 0.1) once
\* exactly when it made no moveTowards, and fireflies tied at the lowest value
\* each random-walk.
C10_TiedFirefliesRandomWalk ==
    StepReturned =>
        \A i \in 1..Len(fireflies) :
            /\ Cardinality(CallsOf(StepCalls, "randomWalk", i)) <= 1
            /\ CallsOf(StepCalls, "randomWalk", i) # {}
                  <=> CallsOf(StepCalls, "moveTowards", i) = {}
            /\ TiedAtMinimum(StepCalls, Len(fireflies), i)
                  => CallsOf(StepCalls, "randomWalk", i) # {}

\* C10: in a step() each firefly makes randomWalk(alpha * 0.1) once exactly
\* when it made no moveTowards, that is when no other firefly had a lower
\* value at the moment of comparison; a firefly tied at the lowest value when
\* the step began random-walks unless a move made earlier in the step has
\* left another firefly lower.
C10_RandomWalkIffNoAttraction ==
    StepReturned =>
        \A i \in 1..Len(fireflies) :
            /\ Cardinality(CallsOf(StepCalls, "randomWalk", i)) <= 1
            /\ CallsOf(StepCalls, "randomWalk", i) # {}
                  <=> CallsOf(StepCalls, "moveTowards", i) = {}
            /\ CallsOf(StepCalls, "moveTowards", i) = {}
                  <=> \A j \in 1..Len(fireflies) :
                         j # i => ~(ValueWhenCompared(StepCalls, i, j, j)
                                       < ValueWhenCompared(StepCalls, i, j, i))
            /\ \A m \in CallsOf(StepCalls, "randomWalk", i) :
                  StepCalls[m].alpha = params.alpha
            /\ \A m \in CallsOf(StepCalls, "moveTowards", i) :
                  StepCalls[m].alpha = 10 * params.alpha

\* a step() in which a firefly tied at the lowest value moved towards the
\* one it was tied with
C10_Witness ==
    /\ StepReturned
    /\ \E i, j \in 1..Len(fireflies) :
          /\ i # j
          /\ TiedAtMinimum(StepCalls, Len(fireflies), i)
          /\ ValueAtStart(StepCalls, j) = ValueAtStart(StepCalls, i)
          /\ MovedTowards(StepCalls, i, j)

\* the positions firefly k had before each of its calls of the step, from
\* call m on, pos being its position before the next one
RECURSIVE PreMovePositions(_, _, _, _)
PreMovePositions(calls, m, k, pos) ==
    IF m > Len(calls) THEN <<>>
    ELSE IF calls[m].i = k
    THEN <<pos>> \o PreMovePositions(calls, m + 1, k,
                                     [x |-> calls[m].x, y |-> calls[m].y])
    ELSE PreMovePositions(calls, m + 1, k, pos)

\* the latest n entries of seq
Latest(seq, n) == SubSeq(seq, Max(1, Len(seq) - n + 1), Len(seq))

\* C11: no trail ever has more than 20 entries; a step() leaves each firefly
\* the latest 20 of its trail followed by the positions it had before each of
\* its moves, in the order of the moves.
C11_TrailKeepsLatestTwenty ==
    /\ \A k \in 1..Len(fireflies) : Len(heap[fireflies[k]].trail) <= 20
    /\ [][/\ \A k \in 1..Len(fireflies') : Len(heap'[fireflies'[k]].trail) <= 20
          /\ lastCall'.op = "step" /\ ~lastCall'.threw
               => \A k \in 1..Len(fireflies) :
                     heap'[fireflies'[k]].trail
                        = Latest(heap[fireflies[k]].trail
                                   \o PreMovePositions(lastCall'.calls, 1, k,
                                         [x |-> heap[fireflies[k]].x,
                                          y |-> heap[fireflies[k]].y]),
                                 20)]_vars

\* a step() with a move of a firefly whose trail was full, and a position
\* other than the latest at its head
C11_Witness ==
    /\ StepReturned
    /\ \E m \in 1..Len(StepCalls) :
          /\ StepCalls[m].trailWas = 20
          /\ heap[fireflies[StepCalls[m].i]].trail[1]
                # heap[fireflies[StepCalls[m].i]].trail[20]

\* the next state is left by a setParams with an n in newParams
Resized == lastCall'.op = "setParams" /\ "n" \in DOMAIN lastCall'.args

\* bestFirefly is the object it was, as it was
BestUntouched ==
    /\ lastCall'.origin.bestKept
    /\ IF bestFirefly = Null THEN bestFirefly' = Null
       ELSE bestFirefly' # Null /\ heap'[bestFirefly'] = heap[bestFirefly]

\* C12: setParams({n: k}) with 0 < k < population size leaves exactly k
\* fireflies of the previous population, unchanged, every one of them of
\* lower value than every firefly dropped or of equal value and earlier in
\* the previous order; generation and bestFirefly are as they were.
C12_ShrinkKeepsLowest ==
    [][Resized /\ lastCall'.args.n > 0 /\ lastCall'.args.n < Len(fireflies)
         => LET from == lastCall'.origin.fireflies
                kept == {from[a] : a \in 1..Len(from)}
            IN  /\ Len(fireflies') = lastCall'.args.n
                /\ kept \subseteq 1..Len(fireflies)
                /\ Cardinality(kept) = lastCall'.args.n
                /\ \A a \in 1..Len(fireflies') :
                      heap'[fireflies'[a]] = heap[fireflies[from[a]]]
                /\ \A a \in kept, b \in (1..Len(fireflies)) \ kept :
                      \/ heap[fireflies[a]].value < heap[fireflies[b]].value
                      \/ /\ heap[fireflies[a]].value = heap[fireflies[b]].value
                         /\ a < b
                /\ generation' = generation
                /\ BestUntouched]_vars

\* a shrink that kept a firefly from beyond the first n places
C12_Witness ==
    /\ lastCall.op = "setParams" /\ ~lastCall.threw
    /\ "n" \in DOMAIN lastCall.args
    /\ Len(fireflies) = lastCall.args.n
    /\ \E a \in 1..Len(fireflies) : lastCall.origin.fireflies[a] > lastCall.args.n

\* C13: setParams({n: k}) with k above the population size leaves the
\* fireflies there were, unchanged and in their order, followed by k - size
\* new ones, each inside the domain with the value of the function at its
\* position; generation and bestFirefly are as they were.
C13_GrowAppends ==
    [][Resized /\ lastCall'.args.n > Len(fireflies)
         => /\ Len(fireflies') = lastCall'.args.n
            /\ \A a \in 1..Len(fireflies) :
                  /\ lastCall'.origin.fireflies[a] = a
                  /\ heap'[fireflies'[a]] = heap[fireflies[a]]
            /\ \A a \in (Len(fireflies) + 1)..Len(fireflies') :
                  /\ lastCall'.origin.fireflies[a] = 0
                  /\ heap'[fireflies'[a]].value
                        = Fn(objectiveFunction, heap'[fireflies'[a]].x,
                             heap'[fireflies'[a]].y)
                  /\ heap'[fireflies'[a]].trail = <<>>
            /\ InDomain'
            /\ objectiveFunction' = objectiveFunction
            /\ generation' = generation
            /\ BestUntouched]_vars

\* a grow that added a firefly of lower value than bestFirefly
C13_Witness ==
    /\ lastCall.op = "setParams" /\ ~lastCall.threw
    /\ "n" \in DOMAIN lastCall.args
    /\ \E a \in 1..Len(fireflies) :
          /\ lastCall.origin.fireflies[a] = 0
          /\ heap[fireflies[a]].value < heap[bestFirefly].value

\* the flash-timing fields of a firefly
FlashFields(f) ==
    [gender |-> f.gender, flashPhase |-> f.flashPhase,
     flashInterval |-> f.flashInterval, flashDuration |-> f.flashDuration,
     isFlashing |-> f.isFlashing, flashIntensity |-> f.flashIntensity,
     responseDelay |-> f.responseDelay, isResponding |-> f.isResponding]

\* the next state is left by a setParams that changed functionKey to another
\* registered key
FunctionChanged ==
    /\ lastCall'.op = "setParams"
    /\ "functionKey" \in DOMAIN lastCall'.args
    /\ lastCall'.args.functionKey \in FunctionKeys
    /\ lastCall'.args.functionKey # params.functionKey

\* C14: a setParams that changes functionKey to another registered key
\* leaves the algorithm and every firefly with the new function, every
\* firefly inside its domain with the value of the new function at its
\* position, and bestFirefly a new clone of a firefly of minimum value;
\* generation, the fireflies and their order, their trails and their
\* flash-timing fields are as they were.
C14_FunctionChangeRebinds ==
    [][FunctionChanged
         => /\ ~lastCall'.threw
            /\ params'.functionKey = lastCall'.args.functionKey
            /\ objectiveFunction' = objectiveFunctions(lastCall'.args.functionKey)
            /\ InDomain'
            /\ Len(fireflies') = Len(fireflies)
            /\ \A k \in 1..Len(fireflies') :
                  /\ lastCall'.origin.fireflies[k] = k
                  /\ heap'[fireflies'[k]].objectiveFunction = objectiveFunction'
                  /\ heap'[fireflies'[k]].value
                        = Fn(objectiveFunction', heap'[fireflies'[k]].x,
                             heap'[fireflies'[k]].y)
                  /\ heap'[fireflies'[k]].trail = heap[fireflies[k]].trail
                  /\ FlashFields(heap'[fireflies'[k]]) = FlashFields(heap[fireflies[k]])
            /\ ~lastCall'.origin.bestKept
            /\ bestFirefly' \notin Range(fireflies')
            /\ heap'[bestFirefly'].objectiveFunction = objectiveFunction'
            /\ \A k \in 1..Len(fireflies') :
                  heap'[bestFirefly'].value <= heap'[fireflies'[k]].value
            /\ \E k \in 1..Len(fireflies') :
                  /\ heap'[bestFirefly'].x = heap'[fireflies'[k]].x
                  /\ heap'[bestFirefly'].y = heap'[fireflies'[k]].y
                  /\ heap'[bestFirefly'].value = heap'[fireflies'[k]].value
            /\ generation' = generation]_vars

\* a change from sphere, where the best found had value 0, to rosenbrock,
\* of a population with trails, a firefly flashing, and a best of higher
\* value than before
C14_Witness ==
    /\ lastCall.op = "setParams" /\ ~lastCall.threw
    /\ lastCall.args = [functionKey |-> "rosenbrock"]
    /\ ~lastCall.origin.bestKept
    /\ heap[bestFirefly].value > 0
    /\ \E k \in 1..Len(fireflies) : heap[fireflies[k]].trail # <<>>
    /\ \E k \in 1..Len(fireflies) : heap[fireflies[k]].isFlashing

\* the Firefly methods the last frame or checkForNearbyFlash called
FlashCalls ==
    IF lastCall.op \in {"render", "checkForNearbyFlash"} /\ ~lastCall.threw
    THEN lastCall.calls ELSE <<>>

UpdateFlashCalls ==
    {FlashCalls[m] : m \in {m \in 1..Len(FlashCalls) : FlashCalls[m].op = "updateFlash"}}

CheckForNearbyFlashCalls ==
    {FlashCalls[m] : m \in {m \in 1..Len(FlashCalls) :
                                FlashCalls[m].op = "checkForNearbyFlash"}}

\* C15: updateFlash(dt) of a firefly that is not responding adds dt to the
\* phase; when that reaches the interval the call leaves it flashing at phase
\* 0, and only then does a flash start.
C15_NaturalFlashAtInterval ==
    \A c \in UpdateFlashCalls :
        ~c.was.isResponding
          => IF c.was.flashPhase + c.deltaTime >= c.was.flashInterval
             THEN c.left.isFlashing /\ c.left.flashPhase = 0
             ELSE /\ c.left.flashPhase = c.was.flashPhase + c.deltaTime
                  /\ c.left.isFlashing => c.was.isFlashing

\* a natural flash started by a phase that was below the interval
C15_Witness ==
    \E c \in UpdateFlashCalls :
        /\ ~c.was.isResponding /\ ~c.was.isFlashing
        /\ c.was.flashPhase < c.was.flashInterval
        /\ c.was.flashPhase > 0
        /\ c.left.isFlashing

\* C16: updateFlash(dt) of a responding firefly whose delay stays above 0
\* takes dt from responseDelay and changes nothing else; the firefly is not
\* flashing.
C16_WaitingOnlyCountsDown ==
    \A c \in UpdateFlashCalls :
        c.was.isResponding /\ c.was.responseDelay - c.deltaTime > 0
          => /\ c.left = [c.was EXCEPT !.responseDelay = c.was.responseDelay - c.deltaTime]
             /\ ~c.left.isFlashing

\* a delay counted down, not for the first time
C16_Witness ==
    \E c \in UpdateFlashCalls :
        /\ c.was.isResponding
        /\ c.was.responseDelay < 400
        /\ c.left.responseDelay > 0
        /\ c.left.responseDelay < c.was.responseDelay

\* the call is the updateFlash in which the response delay of a waiting
\* firefly runs out
ResponseStarts(c) ==
    c.was.isResponding /\ c.was.responseDelay > 0
        /\ c.was.responseDelay - c.deltaTime <= 0

\* C17: the updateFlash in which the response delay runs out leaves the
\* firefly flashing at phase 0 with responseDelay 0.
C17_ResponseFlashStartsAtZero ==
    \A c \in UpdateFlashCalls :
        ResponseStarts(c)
          => c.left.isFlashing /\ c.left.flashPhase = 0 /\ c.left.responseDelay = 0

\* C18: a flash ends in the first updateFlash that brings phase / duration to
\* 1 or more, with isFlashing false, intensity 0 and isResponding false;
\* isResponding is cleared by nothing else, and the end of a flash leaves a
\* firefly that was not responding not responding.
C18_FlashExit ==
    /\ [](\A c \in UpdateFlashCalls :
            /\ (c.was.isFlashing \/ ResponseStarts(c))
                  /\ c.left.flashPhase >= c.left.flashDuration
                 => ~c.left.isFlashing /\ c.left.flashIntensity = 0 /\ ~c.left.isResponding
            /\ c.left.isFlashing => c.left.flashPhase < c.left.flashDuration
            /\ c.was.isFlashing /\ c.left.flashPhase < c.left.flashDuration
                 => c.left.isFlashing
            /\ c.was.isResponding /\ ~c.left.isResponding
                 => /\ c.was.isFlashing \/ ResponseStarts(c)
                    /\ c.left.flashPhase >= c.left.flashDuration
                    /\ ~c.left.isFlashing
            /\ ~c.was.isResponding => ~c.left.isResponding)
    /\ [](\A c \in CheckForNearbyFlashCalls : c.was.isResponding => c.left.isResponding)
    /\ [][\A k \in 1..Len(fireflies) :
             heap[fireflies[k]].isResponding /\ ~heap'[fireflies'[k]].isResponding
                => lastCall'.op = "render"]_vars

\* the end of a response flash that was seen flashing
C18_Witness ==
    \E c \in UpdateFlashCalls :
        /\ c.was.isResponding /\ c.was.isFlashing
        /\ ~c.left.isFlashing /\ ~c.left.isResponding /\ c.left.flashIntensity = 0

\* C19: a flashing firefly's intensity is t / 0.2 for t = phase / duration
\* below 0.2 and e^(-3 (t - 0.2)) from 0.2 on, 1 at t = 0.2; with duration
\* 200 it is 1 at phase 40 and about 0.407 at phase 100.
C19_FlashEnvelope ==
    \A c \in UpdateFlashCalls :
        c.left.isFlashing
          => LET phase == c.left.flashPhase
                 duration == c.left.flashDuration
                 intensity == c.left.flashIntensity
             IN  /\ 5 * phase < duration => intensity = Round(5000 * phase, duration)
                 /\ 5 * phase >= duration
                      => intensity = ExpMilli(0 - 3 * (Round(1000 * phase, duration) - 200))
                 /\ 5 * phase = duration => intensity = 1000
                 /\ duration = 200 /\ phase = 40 => intensity = 1000
                 /\ duration = 200 /\ phase = 100 => intensity \in 406..408

\* updateFlash(60) of a firefly of duration 200 that updateFlash(40) had left
\* at phase 40 with intensity 1
C19_Witness ==
    \E c \in UpdateFlashCalls :
        /\ c.was.isFlashing /\ c.was.flashDuration = 200
        /\ c.was.flashPhase = 40 /\ c.was.flashIntensity = 1000
        /\ c.deltaTime = 60
        /\ c.left.isFlashing /\ c.left.flashPhase = 100
        /\ c.left.flashIntensity \in 406..408

\* checkForNearbyFlash returns early for a firefly like f
NoResponse(f) ==
    \/ f.gender # "female"
    \/ f.isFlashing
    \/ f.isResponding
    \/ f.flashInterval - f.flashPhase < 500

\* a male other than firefly k within 0.2 of the domain's larger side shows
\* an intensity above 0.5
BrightMaleNear(k) ==
    LET domain == DomainOf(objectiveFunction)
        domainScale == Max(domain.xMax - domain.xMin, domain.yMax - domain.yMin)
    IN  \E m \in 1..Len(fireflies) :
           /\ m # k
           /\ heap[fireflies[m]].gender = "male"
           /\ heap[fireflies[m]].flashIntensity > 500
           /\ 25 * distanceToSq(heap[fireflies[k]], heap[fireflies[m]])
                 < domainScale * domainScale

\* C20: checkForNearbyFlash of a firefly that is no female, or is flashing,
\* or is responding, or has less than 500 ms to its natural flash, changes
\* nothing.
C20_NoResponseChangesNothing ==
    /\ [](\A c \in CheckForNearbyFlashCalls : NoResponse(c.was) => c.left = c.was)
    /\ [][lastCall'.op = "checkForNearbyFlash"
             /\ NoResponse(heap[fireflies[lastCall'.args.i]])
            => UNCHANGED <<params, generation, fireflies, bestFirefly,
                           objectiveFunction, heap, lastFrameTime>>]_vars

\* a check of a female with less than 500 ms to her natural flash, neither
\* flashing nor responding, while a male close to her flashes brightly
C20_Witness ==
    /\ lastCall.op = "checkForNearbyFlash"
    /\ heap[fireflies[lastCall.args.i]].gender = "female"
    /\ ~heap[fireflies[lastCall.args.i]].isFlashing
    /\ ~heap[fireflies[lastCall.args.i]].isResponding
    /\ NoResponse(heap[fireflies[lastCall.args.i]])
    /\ BrightMaleNear(lastCall.args.i)

\* the checkForNearbyFlash calls of the call that leaves the next state
NextCheckCalls ==
    IF lastCall'.op \in {"render", "checkForNearbyFlash"} /\ ~lastCall'.threw
    THEN {lastCall'.calls[m] : m \in {m \in 1..Len(lastCall'.calls) :
                                         lastCall'.calls[m].op = "checkForNearbyFlash"}}
    ELSE {}

\* C21: checkForNearbyFlash of a female that is not flashing, not responding
\* and 500 ms or more from her natural flash makes her respond, with a delay
\* in [400, 600), exactly when a male other than her has intensity above 0.5
\* and is nearer than 0.2 of the domain's larger side; otherwise it leaves her
\* as she was, and a call changes no other firefly.
C21_RespondsIffBrightMaleNear ==
    [][/\ \A c \in NextCheckCalls :
             /\ c.was = heap[fireflies[c.i]]
             /\ ~NoResponse(c.was)
                  => IF BrightMaleNear(c.i)
                     THEN c.left \in {[c.was EXCEPT !.isResponding = TRUE,
                                                    !.responseDelay = d] : d \in 400..599}
                     ELSE c.left = c.was
       /\ lastCall'.op = "checkForNearbyFlash"
            => /\ \A k \in 1..Len(fireflies) :
                     k # lastCall'.args.i => heap'[fireflies'[k]] = heap[fireflies[k]]
               /\ UNCHANGED <<params, generation, fireflies, bestFirefly,
                              objectiveFunction, lastFrameTime>>
               /\ heap'[bestFirefly'] = heap[bestFirefly]]_vars

\* a call that made a female respond while one male flashed brightly beside
\* her and another male did not
C21_Witness ==
    /\ lastCall.op = "checkForNearbyFlash"
    /\ \E c \in CheckForNearbyFlashCalls :
          /\ ~c.was.isResponding /\ c.left.isResponding
          /\ c.left.responseDelay \in 400..599
    /\ \E m \in 1..Len(fireflies) :
          heap[fireflies[m]].gender = "male" /\ heap[fireflies[m]].flashIntensity <= 500

\* C22: with frames coming without end, every firefly is flashing again and
\* again, every flash ends, and every firefly that waits to respond comes to
\* flash and then to be idle.
C22_FlashCycleNeverEnds ==
    \A k \in 1..MaxN :
        /\ []<>(heap[fireflies[k]].isFlashing)
        /\ []<>(~heap[fireflies[k]].isFlashing)
        /\ (heap[fireflies[k]].isResponding /\ heap[fireflies[k]].responseDelay > 0)
              ~> heap[fireflies[k]].isFlashing
        /\ (heap[fireflies[k]].isResponding /\ heap[fireflies[k]].responseDelay > 0)
              ~> (~heap[fireflies[k]].isFlashing /\ ~heap[fireflies[k]].isResponding)

\* firefly f holds the value of its own objective function at its position
\* and the negated value as its brightness
Evaluated(f) ==
    /\ f.value = Fn(f.objectiveFunction, f.x, f.y)
    /\ f.brightness = 0 - f.value

\* C23: in every state every firefly of the population lies in the domain of
\* the active objective function, holds that function, its value at its
\* position and the negated value as brightness; bestFirefly holds the value
\* of its own objective function at its position.
C23_EvaluatedInDomain ==
    /\ InDomain
    /\ \A k \in 1..Len(fireflies) :
          /\ heap[fireflies[k]].objectiveFunction = objectiveFunction
          /\ Evaluated(heap[fireflies[k]])
    /\ bestFirefly # Null => Evaluated(heap[bestFirefly])

\* the first step() after a change of function has moved a firefly onto the
\* edge of the new domain
C23_Witness ==
    /\ StepReturned
    /\ objectiveFunction = "rosenbrock"
    /\ generation = 1
    /\ \E k \in 1..Len(fireflies) :
          /\ heap[fireflies[k]].x = DomainOf(objectiveFunction).xMin
          /\ heap[fireflies[k]].trail # <<>>
          /\ heap[fireflies[k]].value # 0

\* the gender and the two timing draws of firefly f
Cadence(f) ==
    [gender |-> f.gender, flashInterval |-> f.flashInterval,
     flashDuration |-> f.flashDuration]

\* the interval of f is in the range of its gender and its duration in
\* [150, 250)
CadenceInRange(f) ==
    /\ f.gender \in {"male", "female"}
    /\ f.gender = "male" => f.flashInterval >= 1500 /\ f.flashInterval < 3000
    /\ f.gender = "female" => f.flashInterval >= 3000 /\ f.flashInterval < 6000
    /\ f.flashDuration >= 150 /\ f.flashDuration < 250

\* every firefly that was in the population before the call has the gender,
\* interval and duration it had, and so has a bestFirefly the call kept
CadenceKept ==
    /\ \A k \in 1..Len(fireflies') :
          lastCall'.origin.fireflies[k] # 0
              => Cadence(heap'[fireflies'[k]])
                   = Cadence(heap[fireflies[lastCall'.origin.fireflies[k]]])
    /\ lastCall'.origin.bestKept /\ bestFirefly # Null
          => bestFirefly' # Null /\ Cadence(heap'[bestFirefly']) = Cadence(heap[bestFirefly])

\* C24: no call of step, setParams, render (checkForNearbyFlash, updateFlash)
\* or clearTrails changes the gender, interval or duration of a firefly; in
\* every state a male's interval is in [1500, 3000), a female's in
\* [3000, 6000) and every duration in [150, 250), bestFirefly's too.
C24_CadenceFixedAtCreation ==
    /\ [](/\ \A k \in 1..Len(fireflies) : CadenceInRange(heap[fireflies[k]])
          /\ bestFirefly # Null => CadenceInRange(heap[bestFirefly]))
    /\ [][CadenceKept]_vars

\* a frame after a step() and a setParams that added a female has made a
\* female respond to a male
C24_Witness ==
    /\ RenderReturned
    /\ generation > 0
    /\ Len(fireflies) = MaxN
    /\ heap[fireflies[MaxN]].gender = "female"
    /\ \E c \in CheckForNearbyFlashCalls : ~c.was.isResponding /\ c.left.isResponding

\* the intensity of f is in [0, 1] and its countdown is not negative
FlashInBounds(f) ==
    /\ f.flashIntensity >= 0
    /\ f.flashIntensity <= 1000
    /\ f.responseDelay >= 0

\* C25: after every call every firefly, bestFirefly included, has an
\* intensity in [0, 1] and a responseDelay of at least 0, and an updateFlash
\* whose deltaTime is at least the countdown leaves the countdown at 0.
C25_IntensityAndDelayBounded ==
    /\ \A k \in 1..Len(fireflies) : FlashInBounds(heap[fireflies[k]])
    /\ bestFirefly # Null => FlashInBounds(heap[bestFirefly])
    /\ \A m \in 1..Len(FlashCalls) : FlashInBounds(FlashCalls[m].left)
    /\ \A c \in UpdateFlashCalls :
          c.was.isResponding /\ c.was.responseDelay > 0
              /\ c.was.responseDelay <= c.deltaTime
            => c.left.responseDelay = 0

\* an updateFlash whose deltaTime is longer than the countdown left
C25_Witness ==
    /\ RenderReturned
    /\ \E c \in UpdateFlashCalls :
          /\ c.was.isResponding
          /\ c.was.responseDelay > 0
          /\ c.was.responseDelay < c.deltaTime
          /\ c.left.responseDelay = 0
    /\ \E k \in 1..Len(fireflies) : heap[fireflies[k]].flashIntensity > 0

\* the fields of firefly f that the search writes
SearchFields(f) ==
    [x |-> f.x, y |-> f.y, value |-> f.value, brightness |-> f.brightness,
     trail |-> f.trail, objectiveFunction |-> f.objectiveFunction]

\* the population holds the same objects in the same order
SameMembers ==
    /\ fireflies' = fireflies
    /\ \A k \in 1..Len(fireflies) : lastCall'.origin.fireflies[k] = k

\* a step() that returned left the gender and the flash fields of every
\* firefly, the population, params, the objective function and the time of
\* the last frame as they were
StepWritesSearchOnly ==
    lastCall'.op = "step" /\ ~lastCall'.threw
        => /\ SameMembers
           /\ \A k \in 1..Len(fireflies) :
                 /\ FlashFields(heap'[fireflies'[k]]) = FlashFields(heap[fireflies[k]])
                 /\ heap'[fireflies'[k]].objectiveFunction
                       = heap[fireflies[k]].objectiveFunction
           /\ UNCHANGED <<params, objectiveFunction, lastFrameTime>>

\* a frame that returned left the position, value, brightness and trail of
\* every firefly, the population, generation, bestFirefly, params and the
\* objective function as they were
RenderWritesFlashOnly ==
    lastCall'.op = "render" /\ ~lastCall'.threw
        => /\ SameMembers
           /\ \A k \in 1..Len(fireflies) :
                 /\ SearchFields(heap'[fireflies'[k]]) = SearchFields(heap[fireflies[k]])
                 /\ Cadence(heap'[fireflies'[k]]) = Cadence(heap[fireflies[k]])
           /\ BestUntouched
           /\ UNCHANGED <<params, objectiveFunction, generation>>

\* C26: step() changes only the position, value, brightness and trail of
\* fireflies, generation and bestFirefly, and no gender, flash field,
\* membership or order; a frame changes only flash fields, and no position,
\* value, brightness, trail, generation, bestFirefly, params or order.
C26_ClocksWriteDisjointState ==
    [][StepWritesSearchOnly /\ RenderWritesFlashOnly]_vars

\* a frame after a step() that moved fireflies has advanced a phase of the
\* population, and the phase of bestFirefly differs from the first firefly's
C26_Witness ==
    /\ RenderReturned
    /\ generation > 0
    /\ \E c \in UpdateFlashCalls : c.left.flashPhase # c.was.flashPhase
    /\ \E k \in 1..Len(fireflies) : heap[fireflies[k]].trail # <<>>
    /\ bestFirefly # Null
    /\ heap[bestFirefly].flashPhase # heap[fireflies[1]].flashPhase

\* C27: in every state the population is not empty and has params.n
\* fireflies, and every step() has returned, with the generation reached,
\* bestFirefly and the population.
C27_PopulationSizedAndStepReturns ==
    /\ Len(fireflies) > 0
    /\ Len(fireflies) = params.n
    /\ lastCall.op = "step"
          => /\ ~lastCall.threw
             /\ bestFirefly # Null
             /\ lastCall.result = [generation |-> generation, best |-> "bestFirefly",
                                   fireflies |-> "fireflies"]

\* a step() of a population that setParams has shrunk, after a frame
C27_Witness ==
    /\ StepReturned
    /\ generation = MaxGen
    /\ Len(fireflies) = MaxN - 1
    /\ lastFrameTime # 0
    /\ lastCall.result.generation = MaxGen

\* the record getStats() returns in the current state
StatsNow ==
    [generation |-> generation,
     bestValue |-> heap[bestFirefly].value,
     bestX |-> heap[bestFirefly].x,
     bestY |-> heap[bestFirefly].y,
     populationSize |-> Len(fireflies)]

\* C28: bestFirefly is set in every state, every getStats() has returned the
\* record (never null) with the generation, the value and position of
\* bestFirefly and the length of the population, and getStats() changes no
\* state.
C28_StatsMatchState ==
    /\ [](/\ bestFirefly # Null
          /\ lastCall.op = "getStats"
                => /\ ~lastCall.threw
                   /\ lastCall.result = StatsNow)
    /\ [][lastCall'.op = "getStats"
            => /\ Untouched
               /\ UNCHANGED lastFrameTime
               /\ lastCall'.origin.bestKept]_vars

\* getStats() after a step() and a shrink, while the first firefly of the
\* population is not at the position of bestFirefly
C28_Witness ==
    /\ lastCall.op = "getStats"
    /\ generation > 0
    /\ Len(fireflies) < MaxN
    /\ lastCall.result.populationSize = MaxN - 1
    /\ heap[fireflies[1]].x # lastCall.result.bestX

\* C29: clearTrails() leaves every firefly of the population with an empty
\* trail and every other field as it was, and the population, its order,
\* generation, params, the objective function and bestFirefly as they were.
C29_ClearTrailsOnlyEmptiesTrails ==
    [][lastCall'.op = "clearTrails"
         => /\ ~lastCall'.threw
            /\ SameMembers
            /\ \A k \in 1..Len(fireflies) :
                  heap'[fireflies'[k]] = [heap[fireflies[k]] EXCEPT !.trail = <<>>]
            /\ BestUntouched
            /\ UNCHANGED <<params, objectiveFunction, generation, lastFrameTime>>]_vars

\* clearTrails() after steps and a frame, with a firefly that has moved
C29_Witness ==
    /\ lastCall.op = "clearTrails"
    /\ generation = MaxGen
    /\ lastFrameTime # 0
    /\ \A k \in 1..Len(fireflies) : heap[fireflies[k]].trail = <<>>
    /\ \E k \in 1..Len(fireflies) :
          \/ heap[fireflies[k]].x # heap[bestFirefly].x
          \/ heap[fireflies[k]].isResponding

\* the fields clone() copies
CopiedFields(f) ==
    [x |-> f.x, y |-> f.y, value |-> f.value, brightness |-> f.brightness,
     objectiveFunction |-> f.objectiveFunction, flash |-> FlashFields(f)]

\* the call replaced bestFirefly by a clone
Cloned == bestFirefly' # Null /\ ~lastCall'.origin.bestKept

\* bestFirefly is an object of its own with an empty trail, and a firefly of
\* the population of lowest value has every field copied equal to its
ClonedFromLowest ==
    /\ bestFirefly' \notin Range(fireflies')
    /\ heap'[bestFirefly'].trail = <<>>
    /\ \E k \in 1..Len(fireflies') :
          /\ \A j \in 1..Len(fireflies') :
                heap'[fireflies'[k]].value <= heap'[fireflies'[j]].value
          /\ CopiedFields(heap'[bestFirefly']) = CopiedFields(heap'[fireflies'[k]])

\* C30: the clone a call makes is a new object, no firefly of the
\* population, with its own empty trail and with the position, value,
\* brightness, objective function, gender and flash fields of the original;
\* calls that move or flash the original later leave the clone as it was.
C30_CloneIsIndependentCopy ==
    [][/\ Cloned => ClonedFromLowest
       /\ ~Cloned /\ bestFirefly # Null
            => /\ bestFirefly' # Null
               /\ CopiedFields(heap'[bestFirefly']) = CopiedFields(heap[bestFirefly])
               /\ heap'[bestFirefly'].trail = <<>>]_vars

\* a step() after a frame has replaced bestFirefly by the clone of a firefly
\* that has a trail and a phase the frames advanced
C30_Witness ==
    /\ StepReturned
    /\ ~lastCall.origin.bestKept
    /\ lastFrameTime # 0
    /\ \E k \in 1..Len(fireflies) :
          /\ CopiedFields(heap[bestFirefly]) = CopiedFields(heap[fireflies[k]])
          /\ heap[fireflies[k]].trail # <<>>
          /\ heap[fireflies[k]].flashPhase \notin {0, 3000}

\* the latest call was getFunctionRange
RangeCalled == lastCall.op = "getFunctionRange"

\* the samples the latest getFunctionRange took
RangeSamples == IF RangeCalled THEN lastCall.calls ELSE <<>>

\* the grid point (i, j) of resolution over the domain of funcKey:
\* (xMin + i * dx, yMin + j * dy) with dx, dy = extent / resolution
GridPoint(funcKey, resolution, i, j) ==
    [x |-> DomainOf(funcKey).xMin
             + Round(i * (DomainOf(funcKey).xMax - DomainOf(funcKey).xMin), resolution),
     y |-> DomainOf(funcKey).yMin
             + Round(j * (DomainOf(funcKey).yMax - DomainOf(funcKey).yMin), resolution)]

\* the samples are the (resolution + 1)^2 grid points, each once, with the
\* value of the function there, the corners of the domain among them, and
\* the result holds the least and the greatest of the values
RangeIsOfGrid ==
    LET funcKey == lastCall.args.funcKey
        resolution == lastCall.args.resolution
        result == lastCall.result
    IN  /\ ~lastCall.threw
        /\ result.min <= result.max
        /\ Len(RangeSamples) = (resolution + 1) * (resolution + 1)
        /\ \A i, j \in 0..resolution :
              \E m \in 1..Len(RangeSamples) :
                /\ RangeSamples[m] =
                      [nan |-> FALSE, i |-> i, j |-> j,
                       x |-> GridPoint(funcKey, resolution, i, j).x,
                       y |-> GridPoint(funcKey, resolution, i, j).y,
                       value |-> Fn(funcKey, GridPoint(funcKey, resolution, i, j).x,
                                    GridPoint(funcKey, resolution, i, j).y)]
                /\ result.min <= RangeSamples[m].value
                /\ result.max >= RangeSamples[m].value
        /\ \E m \in 1..Len(RangeSamples) :
              /\ RangeSamples[m].x = DomainOf(funcKey).xMin
              /\ RangeSamples[m].y = DomainOf(funcKey).yMin
        /\ \E m \in 1..Len(RangeSamples) :
              /\ RangeSamples[m].x = DomainOf(funcKey).xMax
              /\ RangeSamples[m].y = DomainOf(funcKey).yMax
        /\ \E m \in 1..Len(RangeSamples) : RangeSamples[m].value = result.min
        /\ \E m \in 1..Len(RangeSamples) : RangeSamples[m].value = result.max

\* getFunctionRange leaves the algorithm and the time of the last frame as
\* they were
RangeChangesNothing ==
    lastCall'.op = "getFunctionRange"
        => /\ Untouched
           /\ UNCHANGED lastFrameTime
           /\ lastCall'.origin.bestKept

\* C31 as stated, for every resolution: getFunctionRange(key, resolution)
\* evaluates the function at exactly the (resolution + 1)^2 grid points,
\* both boundaries included, returns the minimum and the maximum of the
\* values with min <= max, and changes no state.
C31_RangeOfEveryGrid ==
    /\ [](RangeCalled => RangeIsOfGrid)
    /\ [][RangeChangesNothing]_vars

\* C31: for a resolution of at least 1, getFunctionRange(key, resolution)
\* evaluates the function at exactly the (resolution + 1)^2 grid points,
\* both boundaries included, returns the minimum and the maximum of the
\* values with min <= max, and changes no state.
C31_RangeOfGrid ==
    /\ [](RangeCalled /\ lastCall.args.resolution >= 1 => RangeIsOfGrid)
    /\ [][RangeChangesNothing]_vars

\* the range of rosenbrock on the finest grid, asked for after a step()
C31_Witness ==
    /\ RangeCalled
    /\ lastCall.args = [funcKey |-> "rosenbrock", resolution |-> MaxResolution]
    /\ Len(RangeSamples) = (MaxResolution + 1) * (MaxResolution + 1)
    /\ lastCall.result.min < lastCall.result.max
    /\ generation > 0

\* the latest call was new Firefly(x, y, objectiveFunction) with these
\* arguments
Seeded(x, y, of) ==
    /\ lastCall.op = "Firefly"
    /\ lastCall.args = [x |-> x, y |-> y, objectiveFunction |-> of]

\* the latest call created a firefly at the listed optimum of a polynomial
SeededAtOptimum ==
    \/ Seeded(0, 0, "sphere")
    \/ Seeded(300, 200, "himmelblau")
    \/ Seeded(100, 100, "rosenbrock")

\* the latest call created a firefly under a polynomial
SeededUnderPolynomial ==
    lastCall.op = "Firefly" /\ lastCall.args.objectiveFunction \in Polynomials

\* C32: a firefly created at (0, 0) under sphere, at (3, 2) under himmelblau
\* or at (1, 1) under rosenbrock has value 0 and brightness 0, and under
\* these three functions no firefly created, no firefly of the population
\* and no bestFirefly has a value below 0.
C32_PolynomialsNeverNegative ==
    /\ SeededAtOptimum => lastCall.result.value = 0 /\ lastCall.result.brightness = 0
    /\ SeededUnderPolynomial => lastCall.result.value >= 0
    /\ objectiveFunction \in Polynomials
         => /\ \A k \in 1..Len(fireflies) : heap[fireflies[k]].value >= 0
            /\ bestFirefly # Null => heap[bestFirefly].value >= 0

\* a firefly created at (3, 2) in a search of himmelblau that has made a
\* step
C32_Witness ==
    /\ Seeded(300, 200, "himmelblau")
    /\ lastCall.result.value = 0
    /\ generation > 0
    /\ heap[bestFirefly].value > 0

\* the three flash states of a firefly
Idle(f) ==
    ~f.isFlashing /\ ~f.isResponding /\ f.responseDelay = 0 /\ f.flashIntensity = 0

ResponseWaiting(f) ==
    f.isResponding /\ f.responseDelay > 0 /\ ~f.isFlashing /\ f.flashIntensity = 0

Flashing(f) == f.isFlashing /\ f.responseDelay = 0

\* f is in exactly one of the three states, shines only while flashing, has
\* no response left over after its countdown, and responds only if a female
InOneFlashState(f) ==
    /\ Cardinality({st \in {"Idle", "ResponseWaiting", "Flashing"} :
                       \/ st = "Idle" /\ Idle(f)
                       \/ st = "ResponseWaiting" /\ ResponseWaiting(f)
                       \/ st = "Flashing" /\ Flashing(f)}) = 1
    /\ f.flashIntensity > 0 => f.isFlashing
    /\ f.isResponding /\ f.responseDelay = 0 => f.isFlashing
    /\ f.gender = "male" => ~f.isResponding

\* C33: after every call every firefly, bestFirefly included, is in exactly
\* one of the states Idle, ResponseWaiting and Flashing; an intensity above 0
\* implies isFlashing, isResponding with responseDelay 0 implies isFlashing,
\* and no male is responding.
C33_ThreeFlashStates ==
    /\ \A k \in 1..Len(fireflies) : InOneFlashState(heap[fireflies[k]])
    /\ bestFirefly # Null => InOneFlashState(heap[bestFirefly])
    /\ \A m \in 1..Len(FlashCalls) : InOneFlashState(FlashCalls[m].left)

\* a frame has left one firefly waiting to respond, one flashing with an
\* intensity above 0 and one idle
C33_Witness ==
    /\ RenderReturned
    /\ \E k \in 1..Len(fireflies) : ResponseWaiting(heap[fireflies[k]])
    /\ \E k \in 1..Len(fireflies) :
          Flashing(heap[fireflies[k]]) /\ heap[fireflies[k]].flashIntensity > 0
    /\ \E k \in 1..Len(fireflies) : Idle(heap[fireflies[k]])

\* a checkForNearbyFlash of a firefly that is responding leaves it as it was
PendingResponseNotRestarted ==
    \A c \in CheckForNearbyFlashCalls : c.was.isResponding => c.left = c.was

\* an updateFlash of a waiting firefly whose deltaTime is less than the
\* countdown takes deltaTime off the countdown and changes nothing else
PendingResponseCountsDown ==
    \A c \in UpdateFlashCalls :
        ResponseWaiting(c.was) /\ c.was.responseDelay > c.deltaTime
            => c.left = [c.was EXCEPT !.responseDelay = c.was.responseDelay - c.deltaTime]

\* the updateFlash whose deltaTime reaches the countdown leaves the firefly
\* flashing
PendingResponseFlashes ==
    \A c \in UpdateFlashCalls : ResponseStarts(c) => c.left.isFlashing

\* no call raises the countdown of a firefly that stays responding, and a
\* direct checkForNearbyFlash leaves every responding firefly as it was
PendingResponseOnlyDecreases ==
    \A k \in 1..Len(fireflies) :
        heap[fireflies[k]].isResponding /\ lastCall'.origin.fireflies[k] = k
            => /\ heap'[fireflies'[k]].isResponding
                    => heap'[fireflies'[k]].responseDelay <= heap[fireflies[k]].responseDelay
               /\ lastCall'.op = "checkForNearbyFlash"
                    => heap'[fireflies'[k]] = heap[fireflies[k]]

\* C34: from the moment a female is made to respond until her response flash
\* has ended, checkForNearbyFlash changes neither responseDelay nor
\* isResponding, responseDelay only decreases, by the deltaTime of each
\* frame, and the frame whose deltaTime reaches what is left of it leaves
\* her flashing.
C34_PendingResponseRunsOnce ==
    /\ [](PendingResponseNotRestarted /\ PendingResponseCountsDown
            /\ PendingResponseFlashes)
    /\ [][PendingResponseOnlyDecreases]_vars

\* the fireflies the first loop of a frame makes respond when the population
\* is held in this order and the response delays drawn are r
TriggeredIn(order, r) ==
    LET checked == CheckFrom([st |-> [This EXCEPT !.fireflies = order], calls |-> <<>>],
                             r, 1).st.heap
    IN  {id \in Range(order) : checked[id].isResponding /\ ~heap[id].isResponding}

\* the orders the population can be held in
Orders ==
    {[k \in 1..Len(fireflies) |-> fireflies[p[k]]] : p \in Permutations(1..Len(fireflies))}

\* the fireflies the frame that leads to the next state made respond
TriggeredNext ==
    {fireflies[c.i] : c \in {c \in NextCheckCalls : ~c.was.isResponding /\ c.left.isResponding}}

\* C35: the females a frame makes respond are those its first loop makes
\* respond with the population held in any other order, whatever response
\* delays are drawn.
C35_TriggeredSetIgnoresOrder ==
    [][lastCall'.op = "render" /\ ~lastCall'.threw
         => \A order \in Orders : \A r \in ChorusDelays(Len(fireflies)) :
                TriggeredIn(order, r) = TriggeredNext]_vars

\* a frame has made two females respond, with different delays
C35_Witness ==
    /\ RenderReturned
    /\ \E c1, c2 \in CheckForNearbyFlashCalls :
          /\ c1.i # c2.i
          /\ ~c1.was.isResponding /\ c1.left.isResponding
          /\ ~c2.was.isResponding /\ c2.left.isResponding
          /\ c1.left.responseDelay # c2.left.responseDelay

\* the phase of f is within its cycle
PhaseInCycle(f) == f.flashPhase >= 0 /\ f.flashPhase < f.flashInterval

\* every updateFlash leaves the phase within the cycle
UpdateLeavesPhaseInCycle == \A c \in UpdateFlashCalls : PhaseInCycle(c.left)

\* a firefly found with its phase at or past its interval is not made to
\* respond, and its updateFlash starts a flash at phase 0
LatePhaseStartsNaturalFlash ==
    /\ \A c \in CheckForNearbyFlashCalls : ~PhaseInCycle(c.was) => c.left = c.was
    /\ \A c \in UpdateFlashCalls :
          ~PhaseInCycle(c.was)
              => /\ ~c.was.isFlashing /\ ~c.was.isResponding
                 /\ c.left.isFlashing /\ c.left.flashPhase = 0

\* no call takes the phase of a firefly of the population out of its cycle
PhaseStaysInCycle ==
    \A k \in 1..Len(fireflies') :
        lastCall'.origin.fireflies[k] # 0
          /\ PhaseInCycle(heap[fireflies[lastCall'.origin.fireflies[k]]])
            => PhaseInCycle(heap'[fireflies'[k]])

\* C36: every updateFlash leaves 0 <= phase < interval and no later call
\* takes the phase out of that range; a firefly whose phase is at or past
\* its interval, as the constructor may draw it, is not made to respond, and
\* its first updateFlash starts a natural flash.
C36_PhaseWithinIntervalOnceUpdated ==
    /\ [](UpdateLeavesPhaseInCycle /\ LatePhaseStartsNaturalFlash)
    /\ [][PhaseStaysInCycle]_vars

\* the first frame of a female that joined the population with her phase at
\* her interval, beside a male of intensity above 0.5: the check left her as
\* she was and the update started her flash
C36_Witness ==
    /\ RenderReturned
    /\ lastCall.args.timestamp > 1000
    /\ \E c \in CheckForNearbyFlashCalls, u \in UpdateFlashCalls :
          /\ c.i = u.i
          /\ c.was.gender = "female"
          /\ ~PhaseInCycle(c.was)
          /\ c.left = c.was
          /\ u.left.isFlashing /\ u.left.flashPhase = 0
          /\ \E m \in UpdateFlashCalls :
                m.was.gender = "male" /\ m.was.flashIntensity > 500

\* the step() calls among the calls of a handler
StepCallsOf(call) ==
    Cardinality({m \in 1..Len(call.calls) : call.calls[m].op = "step"})

\* at most one animation-frame callback is requested and not yet run
AtMostOnePending == Cardinality(browser.pending) <= 1

\* a stopped controller has no callback pending and no animationId
StoppedHasNonePending ==
    ~controller.isRunning => browser.pending = {} /\ controller.animationId = Null

\* a running controller waits for the one callback whose id it holds
RunningAwaitsItsFrame ==
    controller.isRunning => browser.pending = {controller.animationId}

\* this transition ran a frame callback
FrameRan == lastCall'.op = "animate" /\ browser'.pending # browser.pending

\* this transition called algorithm.step()
SteppedNow == generation' = generation + 1 \/ browser'.lastStepAt # browser.lastStepAt

\* step() is called by a frame callback alone and by a running controller
StepOnlyWhileRunning == SteppedNow => FrameRan /\ controller.isRunning

\* a frame callback calls step() at most once, and only when 1000/speed ms
\* have passed since step() was last called
FrameStepsOnceWhenDue ==
    FrameRan =>
        /\ StepCallsOf(lastCall') <= 1
        /\ generation' - generation = StepCallsOf(lastCall')
        /\ StepCallsOf(lastCall') = 1 /\ browser.lastStepAt # Null =>
              controller.speed * (browser.now - browser.lastStepAt) >= 1000

\* C37: for any interleaving of start/pause toggles, reset requests and
\* animation-frame callbacks, at most one animation-frame callback is
\* pending at any time, a controller that is not running has none pending
\* and animationId = null, algorithm.step() is never called while isRunning
\* is false, and each frame callback calls step() at most once and only
\* when at least 1000/speed ms have passed since the previous step
C37_OneFrameLoopStepsWhenDue ==
    /\ [](AtMostOnePending /\ StoppedHasNonePending /\ RunningAwaitsItsFrame)
    /\ [][StepOnlyWhileRunning /\ FrameStepsOnceWhenDue]_vars

\* a running controller, paused, resumed and sped up since the page loaded,
\* whose latest frame callback has made the second step of the search, its
\* next frame pending
C37_Witness ==
    /\ lastCall.op = "animate"
    /\ StepCallsOf(lastCall) = 1
    /\ generation = 2
    /\ controller.isRunning
    /\ controller.speed = 2
    /\ controller.lastStepTime = browser.now
    /\ browser.pending = {controller.animationId}
    /\ controller.animationId >= 5

====
